---- MODULE Spec2Model ----
(***************************************************************************)
(* A model of go-actionhero's concurrent gateway layer:                    *)
(*   - the WebSocket connection manager and broadcast fan-out engine of    *)
(*     internal/servers/web.go (specifications Spec, FairSpec, SpecUnit),  *)
(*   - the lifecycle orchestrator and action registry of the api package   *)
(*     (specification SpecApi),                                            *)
(*   - the HTTP gateway of internal/servers/web.go: route compilation and  *)
(*     matching (SpecRoute) and the request handler (SpecHttp),            *)
(*   - the sessions of the connection table (SpecWs, SpecTable) and the    *)
(*     subscription set of a Connection (SpecConn),                        *)
(*   - the lock operations of the gateway's and the orchestrator's         *)
(*     goroutines (SpecLocks), the handler of an upgrade taken statement   *)
(*     by statement (SpecUpgrade), and Start and Stop called by several    *)
(*     goroutines at once (SpecGuard).                                     *)
(* Goroutines are processes with an explicit position (pc); a Go channel   *)
(* is a bounded sequence plus a closed flag; a select statement is a       *)
(* nondeterministic choice among its ready cases.                          *)
(***************************************************************************)
EXTENDS Integers, Sequences, FiniteSets, TLC

\* ------------------------------------------------------------------ bounds

\* clients that connect during one run of Spec and FairSpec
SoloClients == 1
\* clients that connect during one run of SpecFan
FanClients == 2
\* capacity of a session's outbound queue (make(chan []byte, 256) in the code)
SendCap == 2
\* capacity of the shared broadcast queue (make(chan broadcastMessage, 256))
BroadcastCap == 1
\* number of Broadcast calls in one run
MaxBroadcasts == 2
\* number of inbound WebSocket envelopes in one run
MaxInbound == 2

\* the connection ids uuid.New() hands out, in the order it hands them out
\* API calls (registrations and lifecycle calls) in one run of SpecApi
MaxOps == 5
\* registered initializers and servers in one run of SpecApi
MaxInits == 3
MaxServers == 1

Conns == 1..(IF FanClients > SoloClients THEN FanClients ELSE SoloClients)
SoloConns == 1..SoloClients
Channels == {"c"}
NoMsg == [type |-> "-", success |-> "-", channel |-> "-", data |-> "-"]

VARIABLES
    started,      \* WebServer.Start has run
    ctxDone,      \* ws.ctx is cancelled
    stopPc,       \* position of the goroutine running WebServer.Stop
    connections,  \* keys of ws.connections
    nextId,       \* next fresh connection id
    maxConns,     \* environment: how many clients connect during the run
    subs,         \* Connection.Subscriptions, per session
    send,         \* wsConnection.send buffer, per session
    sendClosed,   \* whether close(wsConn.send) has happened
    sock,         \* wsConnection.conn: "none", "open", "closed" (by either end)
    rpc,          \* position of readWebSocket, per session
    rmsg,         \* the reply readWebSocket is about to push
    nRemove,      \* history: removeConnection calls made for the session
    wpc,          \* position of writeWebSocket, per session
    written,      \* frames written to the socket, in order
    pushed,       \* history: everything pushed onto send, in order
    broadcast,    \* ws.broadcast buffer
    bcastCalls,   \* number of Broadcast calls made
    bres,         \* history: what the last Broadcast call returned
    fan,          \* position of handleBroadcasts
    crashed,      \* the process died of an unrecovered panic
    panicKind,    \* history: what the panic was
    eligible,     \* history: per broadcast, sessions subscribed since the call
    nonsub,       \* history: per broadcast, sessions unsubscribed since the call
    dropped,      \* history: <<session, broadcast>> pairs dropped on a full queue
    nIn,          \* inbound envelopes read so far
    actions,      \* API.actions: name -> registered action object (0: none)
    initializers, \* API.initializers, in registration order
    servers,      \* API.servers, in registration order
    running,      \* API.running
    apiCtxDone,   \* API.ctx is cancelled
    calls,        \* history: the components the last lifecycle call invoked, in order
    apiOp,        \* history: the last API call and the error it returned
    nOps,         \* API calls made so far
    methods,      \* history: the method invoked on each component of calls
    failed,       \* history: the places in calls whose method returned an error
    startSeq,     \* history: the components the last Start past the guard invoked
    lifecycle,    \* history: the last lifecycle call that returned nil
    nLog,         \* history: request lines Connection.Act has logged
    lastLog,      \* history: the last of these lines
    actResult,    \* history: the ActResult the last Connection.Act returned
    runs,         \* history: calls of an action's Run made by Connection.Act
    route,        \* the route pattern handed to compileRoute
    reqPath,      \* the request path handed to the compiled pattern
    matched,      \* what matching reqPath against the compiled route gave
    routes,       \* ws.routes: the actions of the route entries, in slice order
    registered,   \* history: the actions with a route, in the order of registration
    nInit,        \* WebServer.Initialize calls made so far
    req,          \* the HTTP request a client sends
    resp,         \* history: the status and the envelopes written for it
    ran,          \* history: the action it ran, its parameters and its outcome
    httpRuns,     \* history: calls of an action's Run made by executeAction
    subscriptions, \* Connection.Subscriptions of a lone Connection
    mu,           \* Connection.mu: the goroutine holding it for writing, those reading
    caller,       \* per goroutine, the Connection method it is in and its channel
    lastApplied,  \* history: per channel, the last of Subscribe and Unsubscribe applied
    isSub,        \* history: what the last IsSubscribed returned, and for which channel
    nCalls,       \* Connection method calls made so far
    mutexes,      \* per mutex, the goroutine writing, those reading, those waiting to write
    at,           \* per goroutine, the locking method it is in and its next lock operation
    hpc,          \* per session, the statements its handleWebSocket has executed
    gpc,          \* per caller of Start and Stop, the call it is in and its position
    apiMu,        \* the caller holding a.mu, 0 when it is free
    passes,       \* history: the calls that passed their guard, in order
    nGuard        \* Start and Stop calls made by the concurrent callers

wsvars == <<started, ctxDone, stopPc, connections, nextId, maxConns, subs, send, sendClosed,
            sock, rpc, rmsg, nRemove, wpc, written, pushed, broadcast,
            bcastCalls, bres, fan, crashed, panicKind, eligible, nonsub, dropped,
            nIn>>

\* groups of variables, for the UNCHANGED clauses
lifeVars == <<started, ctxDone, stopPc>>
tableVars == <<connections, nextId, maxConns>>
readVars == <<rpc, rmsg, nIn, nRemove>>
queueVars == <<send, pushed>>
writeVars == <<wpc, written>>
bcastVars == <<broadcast, bcastCalls, bres>>
panicVars == <<crashed, panicKind>>
histVars == <<eligible, nonsub, dropped>>

regVars == <<actions, initializers, servers>>
runVars == <<running, apiCtxDone>>
callVars == <<calls, methods, failed, startSeq, lifecycle>>

actVars == <<nLog, lastLog, actResult, runs>>

routeVars == <<route, reqPath, matched>>

\* the variables of the HTTP gateway and of a lone Connection
httpVars == <<routes, registered, nInit, req, resp, ran, httpRuns>>
connVars == <<subscriptions, mu, caller, lastApplied, isSub, nCalls>>
\* the mutexes and the goroutines taking them
concVars == <<mutexes, at>>
\* the goroutines calling Start and Stop side by side
guardVars == <<gpc, apiMu, passes, nGuard>>
extVars == <<routeVars, httpVars, connVars, concVars, hpc, guardVars>>

apivars == <<regVars, runVars, callVars, actVars, apiOp, nOps, extVars>>

vars == <<wsvars, apivars>>

\* ------------------------------------------------------------- NewWebServer

NoBroadcastMessage == [channel |-> "-", data |-> NoMsg]
FanIdle == [state |-> "none", msg |-> NoBroadcastMessage, rem |-> {}]

NewWebServer ==
    /\ started = FALSE
    /\ ctxDone = FALSE
    /\ stopPc = "idle"
    /\ connections = {}
    /\ nextId = 1
    /\ subs = [c \in Conns |-> {}]
    /\ send = [c \in Conns |-> <<>>]
    /\ sendClosed = [c \in Conns |-> FALSE]
    /\ sock = [c \in Conns |-> "none"]
    /\ rpc = [c \in Conns |-> "none"]
    /\ rmsg = [c \in Conns |-> NoMsg]
    /\ nRemove = [c \in Conns |-> 0]
    /\ wpc = [c \in Conns |-> "none"]
    /\ written = [c \in Conns |-> <<>>]
    /\ pushed = [c \in Conns |-> <<>>]
    /\ broadcast = <<>>
    /\ bcastCalls = 0
    /\ bres = "none"
    /\ fan = FanIdle
    /\ crashed = FALSE
    /\ panicKind = "none"
    /\ eligible = [k \in 1..MaxBroadcasts |-> {}]
    /\ nonsub = [k \in 1..MaxBroadcasts |-> {}]
    /\ dropped = {}
    /\ nIn = 0

\* ------------------------------------------------------------ Go runtime

\* an unrecovered panic ends the process
Panic(kind) ==
    /\ crashed' = TRUE
    /\ panicKind' = kind

NoPanic == UNCHANGED <<crashed, panicKind>>

\* the payload of the k-th Broadcast call, and the envelope Broadcast marshals
Payload(k) == ToString(k)
BroadcastEnvelope(ch, data) ==
    [type |-> "broadcast", success |-> "-", channel |-> ch, data |-> data]

\* faulty variant: a fan-out that goes by the subscriptions at the time of the
\* Broadcast call
IsSubscribedAtPublish(c, ch) ==
    IF fan.state = "iter"
    THEN \E k \in 1..MaxBroadcasts : fan.msg.data.data = Payload(k) /\ c \in eligible[k]
    ELSE ch \in subs[c]

\* Connection.IsSubscribed
IsSubscribed(c, ch) == ch \in subs[c]

\* faulty variant: a table whose writers do not wait for the fan-out's read lock
TableLockIgnored == fan.state \in {"none", "idle", "iter", "exit"}

\* the table lock: handleBroadcasts holds the read lock while it iterates
TableLockFree == fan.state # "iter"

\* the listener accepts requests from Start until Shutdown is called
Listening == started /\ stopPc \in {"idle", "cancelled", "closed"}

\* faulty variant: a wait group that the readers are not added to
WgWorkersWriterOnly(c) ==
    IF wpc[c] = "run" THEN 1 ELSE 0

\* ws.wg: one per live worker added by Start and handleWebSocket
WgWorkers(c) ==
    (IF rpc[c] \in {"read", "push"} THEN 1 ELSE 0) + (IF wpc[c] = "run" THEN 1 ELSE 0)

RECURSIVE SumWorkers(_)
SumWorkers(S) ==
    IF S = {} THEN 0
    ELSE LET c == CHOOSE x \in S : TRUE IN WgWorkers(c) + SumWorkers(S \ {c})

WgCount ==
    (IF fan.state \in {"idle", "iter"} THEN 1 ELSE 0)
    + (IF Listening THEN 1 ELSE 0)
    + SumWorkers(Conns)

\* ---------------------------------------------------------- WebServer.Start

\* Start: launches handleBroadcasts and the listener
WebServerStart ==
    /\ ~crashed
    /\ ~started
    /\ started' = TRUE
    /\ fan' = [FanIdle EXCEPT !.state = "idle"]
    /\ UNCHANGED <<ctxDone, stopPc, tableVars, subs, sendClosed, sock,
                   readVars, queueVars, writeVars, bcastVars, panicVars, histVars, apivars>>

\* --------------------------------------------------------- handleWebSocket

\* faulty variant: an id taken from the size of the table, which comes back
\* once a session has left
SlotID == Cardinality(connections) + 1

\* uuid.New(): an id no session has had
NewID == nextId

\* upgrade: a fresh id, the session inserted under the table lock, two workers
handleWebSocket ==
    /\ ~crashed
    /\ Listening
    /\ nextId <= maxConns
    /\ TableLockFree
    /\ LET c == NewID IN
        /\ connections' = connections \cup {c}
        /\ nextId' = nextId + 1
        /\ sock' = [sock EXCEPT ![c] = "open"]
        /\ rpc' = [rpc EXCEPT ![c] = "read"]
        /\ wpc' = [wpc EXCEPT ![c] = "run"]
    /\ UNCHANGED <<lifeVars, maxConns, subs, sendClosed, rmsg, nIn, nRemove, queueVars,
                   written, bcastVars, fan, panicVars, histVars,
                   apivars>>

\* faulty variant: a handler that launches the workers before it registers
\* the session
UpgradeStepsWorkersFirst ==
    <<"uuid", "go readWebSocket", "go writeWebSocket", "insert">>

\* the statements of handleWebSocket after the upgrade, in program order
UpgradeSteps ==
    <<"uuid", "insert", "go readWebSocket", "go writeWebSocket">>

\* no handler has started
NoUpgrade == hpc = [c \in Conns |-> 0]

\* the next statement of the handler of session c, the handlers of several
\* upgrades running side by side
handleWebSocketStep(c) ==
    /\ ~crashed
    /\ hpc[c] < Len(UpgradeSteps)
    /\ hpc' = [hpc EXCEPT ![c] = @ + 1]
    /\ LET st == UpgradeSteps[hpc[c] + 1] IN
        \/ /\ st = "uuid"
           /\ Listening
           /\ nextId <= maxConns
           /\ c = NewID
           /\ nextId' = nextId + 1
           /\ sock' = [sock EXCEPT ![c] = "open"]
           /\ UNCHANGED <<connections, rpc, wpc>>
        \/ /\ st = "insert"
           /\ TableLockFree
           /\ connections' = connections \cup {c}
           /\ UNCHANGED <<nextId, sock, rpc, wpc>>
        \/ /\ st = "go readWebSocket"
           /\ rpc' = [rpc EXCEPT ![c] = "read"]
           /\ UNCHANGED <<connections, nextId, sock, wpc>>
        \/ /\ st = "go writeWebSocket"
           /\ wpc' = [wpc EXCEPT ![c] = "run"]
           /\ UNCHANGED <<connections, nextId, sock, rpc>>
    /\ UNCHANGED <<lifeVars, maxConns, subs, sendClosed, rmsg, nIn, nRemove, queueVars,
                   written, bcastVars, fan, panicVars, histVars>>
    /\ UNCHANGED <<regVars, runVars, callVars, actVars, apiOp, nOps,
                   routeVars, httpVars, connVars, concVars, guardVars>>

\* the client goes away or the network fails: from now on reads and writes of
\* the socket fail, as they do once the server has closed it
PeerGone(c) ==
    /\ ~crashed
    /\ sock[c] = "open"
    /\ sock' = [sock EXCEPT ![c] = "closed"]
    /\ UNCHANGED <<lifeVars, tableVars, subs, sendClosed, readVars, queueVars,
                   writeVars, bcastVars, fan, panicVars, histVars, apivars>>

\* ----------------------------------------------------------- readWebSocket

\* the inbound envelopes a client can send; "-" is a missing field, outcome is
\* what the action's Run comes to when the envelope reaches one
Envelopes ==
    {[type |-> "action", action |-> "echo", channel |-> "-", outcome |-> o] :
            o \in {"result", "fault"}}
    \cup {[type |-> t, action |-> "-", channel |-> ch, outcome |-> "-"] :
            t \in {"subscribe", "unsubscribe"}, ch \in Channels}

\* every kind of inbound envelope: no type, a type the server does not know,
\* an action envelope with no action name, with the name of no action, and
\* with an action that returns a result, an error, a typed error or panics,
\* and subscribe and unsubscribe envelopes with and without a channel
AllEnvelopes ==
    {[type |-> t, action |-> "-", channel |-> "-", outcome |-> "-"] : t \in {"-", "ping"}}
    \cup {[type |-> "action", action |-> a, channel |-> "-", outcome |-> "-"] :
            a \in {"-", "nope"}}
    \cup {[type |-> "action", action |-> "echo", channel |-> "-", outcome |-> o] :
            o \in {"result", "error", "typed", "fault"}}
    \cup {[type |-> t, action |-> "-", channel |-> ch, outcome |-> "-"] :
            t \in {"subscribe", "unsubscribe"}, ch \in Channels \cup {"-"}}

\* API.GetAction
GetAction(name) == actions[name]
ActionExists(name) == name \in DOMAIN actions /\ actions[name] # 0

\* sendWebSocketSuccess / sendWebSocketError / the confirmations
SuccessReply == [type |-> "response", success |-> "true", channel |-> "-", data |-> "result"]
ErrorReply(code) == [type |-> "response", success |-> "false", channel |-> "-", data |-> code]
Confirmation(t, ch) == [type |-> t, success |-> "-", channel |-> ch, data |-> "-"]

\* whether handling the envelope reaches action.Run and Run panics
Faults(e) == e.type = "action" /\ ActionExists(e.action) /\ e.outcome = "fault"

\* handleWebSocketMessage and its handlers: the reply pushed for an envelope
Reply(e) ==
    CASE e.type = "-" -> ErrorReply("INVALID_MESSAGE")
      [] e.type = "action" ->
            IF e.action = "-" THEN ErrorReply("INVALID_MESSAGE")
            ELSE IF ~ActionExists(e.action) THEN ErrorReply("ACTION_NOT_FOUND")
            ELSE IF e.outcome = "typed" THEN ErrorReply("TYPED_CODE")
            ELSE IF e.outcome = "error" THEN ErrorReply("INTERNAL_ERROR")
            ELSE SuccessReply
      [] e.type = "subscribe" ->
            IF e.channel = "-" THEN ErrorReply("INVALID_MESSAGE")
            ELSE Confirmation("subscribed", e.channel)
      [] e.type = "unsubscribe" ->
            IF e.channel = "-" THEN ErrorReply("INVALID_MESSAGE")
            ELSE Confirmation("unsubscribed", e.channel)
      [] OTHER -> ErrorReply("UNKNOWN_MESSAGE_TYPE")

\* Connection.Subscribe / Connection.Unsubscribe, as the handlers call them
SubsAfter(c, e) ==
    IF e.channel = "-" THEN subs[c]
    ELSE IF e.type = "subscribe" THEN subs[c] \cup {e.channel}
    ELSE IF e.type = "unsubscribe" THEN subs[c] \ {e.channel}
    ELSE subs[c]

\* the broadcast calls whose message has not yet been offered to session c
InFlight(c) ==
    {k \in 1..bcastCalls :
        \/ \E i \in 1..Len(broadcast) : broadcast[i].data.data = Payload(k)
        \/ fan.state = "iter" /\ fan.msg.data.data = Payload(k) /\ c \in fan.rem}

\* the channel of the k-th Broadcast call, from the history of accepted calls
ChannelOf(k) ==
    IF \E i \in 1..Len(broadcast) : broadcast[i].data.data = Payload(k)
    THEN (CHOOSE m \in {broadcast[i] : i \in 1..Len(broadcast)} :
            m.data.data = Payload(k)).channel
    ELSE fan.msg.channel

\* ReadJSON returns an envelope and handleWebSocketMessage handles it, up to the
\* push of the reply
ReadEnvelope(c, e) ==
    /\ ~crashed
    /\ rpc[c] = "read"
    /\ sock[c] = "open"
    /\ nIn < MaxInbound
    /\ nIn' = nIn + 1
    /\ IF Faults(e)
       THEN /\ Panic("action fault")
            /\ UNCHANGED <<subs, rpc, rmsg, eligible, nonsub>>
       ELSE /\ NoPanic
            /\ subs' = [subs EXCEPT ![c] = SubsAfter(c, e)]
            /\ rmsg' = [rmsg EXCEPT ![c] = Reply(e)]
            /\ rpc' = [rpc EXCEPT ![c] = "push"]
            /\ eligible' = [k \in DOMAIN eligible |->
                    IF k \in InFlight(c) /\ ChannelOf(k) \notin SubsAfter(c, e)
                    THEN eligible[k] \ {c} ELSE eligible[k]]
            /\ nonsub' = [k \in DOMAIN nonsub |->
                    IF k \in InFlight(c) /\ ChannelOf(k) \in SubsAfter(c, e)
                    THEN nonsub[k] \ {c} ELSE nonsub[k]]
    /\ UNCHANGED <<lifeVars, tableVars, sendClosed, sock, nRemove, queueVars,
                   writeVars, bcastVars, fan, dropped, apivars>>

\* wsConn.send <- data: blocks while the queue is full, panics once it is closed
PushReply(c) ==
    /\ ~crashed
    /\ rpc[c] = "push"
    /\ IF sendClosed[c]
       THEN /\ Panic("send on closed channel")
            /\ UNCHANGED <<send, pushed, rpc, rmsg>>
       ELSE /\ Len(send[c]) < SendCap
            /\ send' = [send EXCEPT ![c] = Append(@, rmsg[c])]
            /\ pushed' = [pushed EXCEPT ![c] = Append(@, rmsg[c])]
            /\ rpc' = [rpc EXCEPT ![c] = "read"]
            /\ rmsg' = [rmsg EXCEPT ![c] = NoMsg]
            /\ NoPanic
    /\ UNCHANGED <<lifeVars, tableVars, subs, sendClosed, sock, nIn, nRemove,
                   writeVars, bcastVars, fan, histVars, apivars>>

\* ReadJSON fails (socket closed or client gone): break, then the deferred
\* wg.Done() and the call of removeConnection
ReadFail(c) ==
    /\ ~crashed
    /\ rpc[c] = "read"
    /\ sock[c] = "closed"
    /\ rpc' = [rpc EXCEPT ![c] = "remove"]
    /\ nRemove' = [nRemove EXCEPT ![c] = @ + 1]
    /\ UNCHANGED <<lifeVars, tableVars, subs, sendClosed, sock, rmsg, nIn,
                   queueVars, writeVars, bcastVars, fan, panicVars, histVars, apivars>>

\* removeConnection called once more for a session it has already removed
RemoveAgain(c) ==
    /\ ~crashed
    /\ rpc[c] = "exit"
    /\ nRemove[c] = 1
    /\ rpc' = [rpc EXCEPT ![c] = "remove"]
    /\ nRemove' = [nRemove EXCEPT ![c] = @ + 1]
    /\ UNCHANGED <<lifeVars, tableVars, subs, sendClosed, sock, rmsg, nIn,
                   queueVars, writeVars, bcastVars, fan, panicVars, histVars, apivars>>

\* removeConnection, first step: delete from the table under the table lock
removeConnectionDelete(c) ==
    /\ ~crashed
    /\ rpc[c] = "remove"
    /\ TableLockFree
    /\ connections' = connections \ {c}
    /\ rpc' = [rpc EXCEPT ![c] = "closeq"]
    /\ UNCHANGED <<lifeVars, nextId, maxConns, subs, sendClosed, sock, rmsg, nIn, nRemove,
                   queueVars, writeVars, bcastVars, fan, panicVars, histVars, apivars>>

\* removeConnection, second step: close(wsConn.send); closing a closed channel panics
removeConnectionClose(c) ==
    /\ ~crashed
    /\ rpc[c] = "closeq"
    /\ IF sendClosed[c]
       THEN /\ Panic("close of closed channel")
            /\ UNCHANGED <<sendClosed, rpc>>
       ELSE /\ sendClosed' = [sendClosed EXCEPT ![c] = TRUE]
            /\ rpc' = [rpc EXCEPT ![c] = "closesock"]
            /\ NoPanic
    /\ UNCHANGED <<lifeVars, tableVars, subs, sock, rmsg, nIn, nRemove, queueVars,
                   writeVars, bcastVars, fan, histVars, apivars>>

\* removeConnection, last step: wsConn.conn.Close() (an error on a closed socket
\* is logged and returned, nothing else)
removeConnectionCloseSocket(c) ==
    /\ ~crashed
    /\ rpc[c] = "closesock"
    /\ sock' = [sock EXCEPT ![c] = "closed"]
    /\ rpc' = [rpc EXCEPT ![c] = "exit"]
    /\ UNCHANGED <<lifeVars, tableVars, subs, sendClosed, rmsg, nIn, nRemove,
                   queueVars, writeVars, bcastVars, fan, panicVars, histVars, apivars>>

\* ---------------------------------------------------------- writeWebSocket

\* faulty variant: a writer that does not notice the closed queue
WriterReadyIgnoresClose(c) ==
    (IF send[c] # <<>> THEN {"message"} ELSE {})
    \cup (IF ctxDone THEN {"done"} ELSE {})

\* the cases of writeWebSocket's select that are ready
WriterReady(c) ==
    (IF send[c] # <<>> THEN {"message"} ELSE {})
    \cup (IF send[c] = <<>> /\ sendClosed[c] THEN {"closed"} ELSE {})
    \cup (IF ctxDone THEN {"done"} ELSE {})

\* the message writeWebSocket takes from the queue
\* faulty variant: a writer that takes the newest message instead of the oldest
WriterTakesNewest(q) == q[Len(q)]

WriterTakes(q) == Head(q)
WriterLeaves(q) == Tail(q)

\* return from writeWebSocket: the deferred wg.Done() and conn.Close()
WriterReturn(c) ==
    /\ wpc' = [wpc EXCEPT ![c] = "exit"]
    /\ sock' = [sock EXCEPT ![c] = "closed"]

\* one turn of writeWebSocket's loop
writeWebSocket(c) ==
    /\ ~crashed
    /\ wpc[c] = "run"
    /\ \E case \in WriterReady(c) :
        \/ /\ case = "message"
           /\ send' = [send EXCEPT ![c] = WriterLeaves(@)]
           /\ IF sock[c] = "open"
              THEN /\ written' = [written EXCEPT ![c] = Append(@, WriterTakes(send[c]))]
                   /\ UNCHANGED <<wpc, sock>>
              ELSE /\ WriterReturn(c)
                   /\ UNCHANGED written
        \/ /\ case \in {"closed", "done"}
           /\ WriterReturn(c)
           /\ UNCHANGED <<send, written>>
    /\ UNCHANGED <<lifeVars, tableVars, subs, sendClosed, readVars, pushed,
                   bcastVars, fan, panicVars, histVars, apivars>>

\* -------------------------------------------------------- WebServer.Broadcast

\* the cases of Broadcast's select that are ready; Go picks any one of them, and
\* the default case only when there is none
BroadcastReady ==
    (IF Len(broadcast) < BroadcastCap THEN {"send"} ELSE {})
    \cup (IF ctxDone THEN {"done"} ELSE {})

\* faulty variant: a select without the default case
BroadcastCasesBlocking == BroadcastReady

BroadcastCases == IF BroadcastReady = {} THEN {"default"} ELSE BroadcastReady

BroadcastReturn(case) ==
    CASE case = "send" -> "nil"
      [] case = "done" -> "server is shutting down"
      [] case = "default" -> "broadcast channel is full"

\* a session counts as connected while its socket is open and both workers run
Connected(c) ==
    /\ c \in connections
    /\ sock[c] = "open"
    /\ rpc[c] \in {"read", "push"}
    /\ wpc[c] = "run"

Broadcast(ch) ==
    /\ ~crashed
    /\ bcastCalls < MaxBroadcasts
    /\ LET k == bcastCalls + 1
           message == [channel |-> ch, data |-> BroadcastEnvelope(ch, Payload(k))]
       IN
       /\ bcastCalls' = k
       /\ \E case \in BroadcastCases :
            /\ bres' = BroadcastReturn(case)
            /\ IF case = "send"
               THEN /\ broadcast' = Append(broadcast, message)
                    /\ eligible' = [eligible EXCEPT ![k] =
                            {c \in Conns : Connected(c) /\ IsSubscribed(c, ch)}]
                    /\ nonsub' = [nonsub EXCEPT ![k] =
                            {c \in Conns : ~IsSubscribed(c, ch)}]
               ELSE UNCHANGED <<broadcast, eligible, nonsub>>
    /\ UNCHANGED <<lifeVars, tableVars, subs, sendClosed, sock, readVars,
                   queueVars, writeVars, fan, panicVars, dropped, apivars>>

\* ------------------------------------------------------------ handleBroadcasts

\* the broadcast call a marshalled envelope came from
CallOf(envelope) == CHOOSE k \in 1..MaxBroadcasts : Payload(k) = envelope.data

\* case msg := <-ws.broadcast: take the message and the table's read lock
FanoutTake ==
    /\ ~crashed
    /\ fan.state = "idle"
    /\ broadcast # <<>>
    /\ broadcast' = Tail(broadcast)
    /\ fan' = IF connections = {}
              THEN [state |-> "idle", msg |-> NoBroadcastMessage, rem |-> {}]
              ELSE [state |-> "iter", msg |-> Head(broadcast), rem |-> connections]
    /\ UNCHANGED <<lifeVars, tableVars, subs, sendClosed, sock, readVars,
                   queueVars, writeVars, bcastCalls, bres, panicVars, histVars, apivars>>

\* the fan-out worker after it has dealt with session c
\* faulty variant: a loop that does not advance past the connection
FanoutAfterStuck(c) == fan

FanoutAfter(c) ==
    IF fan.rem = {c}
    THEN [state |-> "idle", msg |-> NoBroadcastMessage, rem |-> {}]
    ELSE [fan EXCEPT !.rem = @ \ {c}]

\* the inner select of handleBroadcasts: the send when the queue has room, the
\* default case when it is full
\* faulty variant: a push that ignores the capacity of the queue
FanoutSelectUnbounded(q) == "send"

FanoutSelect(q) == IF Len(q) < SendCap THEN "send" ELSE "default"

\* one turn of the loop over ws.connections: the non-blocking push of the select
\* with a default case; a send on a closed channel panics
FanoutPush(c) ==
    /\ ~crashed
    /\ fan.state = "iter"
    /\ c \in fan.rem
    /\ IF ~IsSubscribed(c, fan.msg.channel)
       THEN /\ UNCHANGED <<queueVars, dropped>>
            /\ fan' = FanoutAfter(c)
            /\ NoPanic
       ELSE IF sendClosed[c]
       THEN /\ Panic("send on closed channel")
            /\ UNCHANGED <<queueVars, dropped, fan>>
       ELSE IF FanoutSelect(send[c]) = "send"
       THEN /\ send' = [send EXCEPT ![c] = Append(@, fan.msg.data)]
            /\ pushed' = [pushed EXCEPT ![c] = Append(@, fan.msg.data)]
            /\ fan' = FanoutAfter(c)
            /\ UNCHANGED dropped
            /\ NoPanic
       ELSE /\ dropped' = dropped \cup {<<c, CallOf(fan.msg.data)>>}
            /\ fan' = FanoutAfter(c)
            /\ UNCHANGED queueVars
            /\ NoPanic
    /\ UNCHANGED <<lifeVars, tableVars, subs, sendClosed, sock, readVars,
                   writeVars, bcastVars, eligible, nonsub, apivars>>

\* case <-ws.ctx.Done(): return, with the deferred wg.Done()
FanoutExit ==
    /\ ~crashed
    /\ fan.state = "idle"
    /\ ctxDone
    /\ fan' = [fan EXCEPT !.state = "exit"]
    /\ UNCHANGED <<lifeVars, tableVars, subs, sendClosed, sock, readVars,
                   queueVars, writeVars, bcastVars, panicVars, histVars,
                   apivars>>

\* ------------------------------------------------------------ WebServer.Stop

\* ws.cancel()
StopCancel ==
    /\ ~crashed
    /\ started
    /\ stopPc = "idle"
    /\ ctxDone' = TRUE
    /\ stopPc' = "cancelled"
    /\ UNCHANGED <<started, tableVars, subs, sendClosed, sock, readVars,
                   queueVars, writeVars, bcastVars, fan, panicVars, histVars, apivars>>

\* the loop closing every tracked socket, under the table lock
StopCloseAll ==
    /\ ~crashed
    /\ stopPc = "cancelled"
    /\ TableLockFree
    /\ sock' = [c \in Conns |-> IF c \in connections THEN "closed" ELSE sock[c]]
    /\ stopPc' = "closed"
    /\ UNCHANGED <<started, ctxDone, tableVars, subs, sendClosed, readVars,
                   queueVars, writeVars, bcastVars, fan, panicVars, histVars, apivars>>

\* ws.server.Shutdown(ctx): the listener closes. Hijacked (WebSocket) connections
\* are not waited for, so with no HTTP request in flight it returns nil
StopShutdown ==
    /\ ~crashed
    /\ stopPc = "closed"
    /\ stopPc' = "waiting"
    /\ UNCHANGED <<started, ctxDone, tableVars, subs, sendClosed, sock,
                   readVars, queueVars, writeVars, bcastVars, fan, panicVars,
                   histVars, apivars>>

\* ws.wg.Wait() returns, and Stop with it
StopWait ==
    /\ ~crashed
    /\ stopPc = "waiting"
    /\ WgCount = 0
    /\ stopPc' = "done"
    /\ UNCHANGED <<started, ctxDone, tableVars, subs, sendClosed, sock,
                   readVars, queueVars, writeVars, bcastVars, fan, panicVars,
                   histVars, apivars>>

\* ------------------------------------------------------------------- API

ActionNames == {"echo", "status"}
\* two action objects per name, to tell a first registration from a later one
ActionObjects == {[name |-> n, obj |-> o] : n \in ActionNames, o \in {1, 2}}

InitializerNames == {"init1", "init2", "init3", "init4"}
\* Initializer.Priority(): the priorities of the api tests, and a tie
Priority == [i \in InitializerNames |->
                CASE i = "init1" -> 10 [] i = "init2" -> 5 [] i = "init3" -> 15
                  [] i = "init4" -> 10]
ServerNames == {"web"}

\* a registered component, as the lifecycle loops meet it
Component(kind, name) == [kind |-> kind, name |-> name]

NoLog == [status |-> "-", action |-> "-", err |-> "-"]
NoResult == [Response |-> "-", Error |-> "-"]

NoOp == [op |-> "none", name |-> "-", obj |-> 0, err |-> "nil"]

\* New
New ==
    /\ actions = [n \in ActionNames |-> 0]
    /\ initializers = <<>>
    /\ servers = <<>>
    /\ running = FALSE
    /\ apiCtxDone = FALSE
    /\ calls = <<>>
    /\ apiOp = NoOp
    /\ nOps = 0
    /\ methods = <<>>
    /\ failed = {}
    /\ startSeq = <<>>
    /\ lifecycle = "Created"
    /\ nLog = 0
    /\ lastLog = NoLog
    /\ actResult = NoResult
    /\ runs = 0

\* the API as startServer of cmd/actionhero leaves it: its actions and the web
\* server registered, the API started
Registered ==
    /\ actions = [n \in ActionNames |-> 1]
    /\ initializers = <<>>
    /\ servers = <<"web">>
    /\ running = TRUE
    /\ apiCtxDone = FALSE
    /\ calls = <<>>
    /\ apiOp = NoOp
    /\ nOps = 0
    /\ methods = <<>>
    /\ failed = {}
    /\ startSeq = <<Component("server", "web")>>
    /\ lifecycle = "Running"
    /\ nLog = 0
    /\ lastLog = NoLog
    /\ actResult = NoResult
    /\ runs = 0

ApiCall(op, name, obj, err) ==
    /\ ~crashed
    /\ nOps < MaxOps
    /\ nOps' = nOps + 1
    /\ apiOp' = [op |-> op, name |-> name, obj |-> obj, err |-> err]

\* RegisterAction: the registry after the call, and the error returned
\* faulty variant: a registration that overwrites
ActionsAfterOverwrite(a) == [actions EXCEPT ![a.name] = a.obj]

ActionsAfterRegister(a) ==
    IF actions[a.name] # 0 THEN actions ELSE [actions EXCEPT ![a.name] = a.obj]

RegisterError(a) == IF actions[a.name] # 0 THEN "already registered" ELSE "nil"

RegisterAction(a) ==
    /\ ApiCall("RegisterAction", a.name, a.obj, RegisterError(a))
    /\ actions' = ActionsAfterRegister(a)
    /\ UNCHANGED <<initializers, servers, runVars, callVars, actVars, wsvars, extVars>>

\* RegisterInitializer / RegisterServer: append, duplicates allowed
RegisterInitializer(i) ==
    /\ Len(initializers) < MaxInits
    /\ ApiCall("RegisterInitializer", i, 0, "nil")
    /\ initializers' = Append(initializers, i)
    /\ UNCHANGED <<actions, servers, runVars, callVars, actVars, wsvars, extVars>>

RegisterServer(sv) ==
    /\ Len(servers) < MaxServers
    /\ ApiCall("RegisterServer", sv, 0, "nil")
    /\ servers' = Append(servers, sv)
    /\ UNCHANGED <<actions, initializers, runVars, callVars, actVars, wsvars, extVars>>

\* GetInitializers: a copy, sorted by the nested exchange loops of the code
\* faulty variant: the comparison the other way round
PriorityLess(x, y) == Priority[x] < Priority[y]

PriorityGreater(x, y) == Priority[x] > Priority[y]

Swap(a, i, j) == [a EXCEPT ![i] = a[j], ![j] = a[i]]

RECURSIVE SortInner(_, _, _)
SortInner(a, i, j) ==
    IF j > Len(a) THEN a
    ELSE SortInner(IF PriorityGreater(a[i], a[j]) THEN Swap(a, i, j) ELSE a, i, j + 1)

RECURSIVE SortOuter(_, _)
SortOuter(a, i) ==
    IF i > Len(a) THEN a ELSE SortOuter(SortInner(a, i, i + 1), i + 1)

GetInitializers == SortOuter(initializers, 1)
GetServers == servers

Reverse(q) == [i \in 1..Len(q) |-> q[Len(q) + 1 - i]]

\* the order in which Initialize and Start invoke the components
StartOrder ==
    [i \in 1..Len(GetInitializers) |-> Component("initializer", GetInitializers[i])]
    \o [i \in 1..Len(GetServers) |-> Component("server", GetServers[i])]

\* the order in which Stop invokes them
StopOrder ==
    [i \in 1..Len(GetServers) |-> Component("server", Reverse(GetServers)[i])]
    \o [i \in 1..Len(GetInitializers) |->
            Component("initializer", Reverse(GetInitializers)[i])]

\* a loop over the components that returns at the first error: f is the place
\* of the component whose method fails, 0 when none does
\* faulty variant: a loop that goes on after the error
InvokedAll(order, f) == order

Invoked(order, f) == IF f = 0 THEN order ELSE SubSeq(order, 1, f)
LoopError(order, f, what) ==
    IF f = 0 THEN "nil"
    ELSE "failed to " \o what
            \o (IF order[f].kind = "server" THEN " server " ELSE " ")
            \o order[f].name
FailedAt(f) == IF f = 0 THEN {} ELSE {f}

\* the methods a lifecycle call invokes: its own method on every component
MethodsOf(invoked, method) == [i \in 1..Len(invoked) |-> method]

\* a lifecycle call refused by its guard: nothing is invoked
Refused(op, err) ==
    /\ ApiCall(op, "-", 0, err)
    /\ calls' = <<>>
    /\ methods' = <<>>
    /\ failed' = {}

\* IsRunning: the flag, read under the lock
IsRunning == running

\* Initialize
\* faulty variant: no guard
InitializeGuardOff == FALSE

InitializeGuard == running

APIInitialize ==
    /\ IF InitializeGuard
       THEN /\ Refused("Initialize", "API is already running")
            /\ UNCHANGED lifecycle
       ELSE \E f \in 0..Len(StartOrder) :
            /\ ApiCall("Initialize", "-", 0, LoopError(StartOrder, f, "initialize"))
            /\ calls' = Invoked(StartOrder, f)
            /\ methods' = MethodsOf(Invoked(StartOrder, f), "Initialize")
            /\ failed' = FailedAt(f)
            /\ lifecycle' = IF f = 0 THEN "Initialized" ELSE lifecycle
    /\ UNCHANGED <<regVars, runVars, startSeq, actVars, wsvars, extVars>>

\* Start
\* faulty variants: no guard; a guard that also refuses an API never initialized
StartGuardOff == FALSE
StartGuardInitialized == running \/ lifecycle = "Created"
\* faulty variant: a guard that lets an API be started once only
StartGuardOnce == running \/ lifecycle = "Stopped"
\* faulty variant: a guard that refuses only an API whose last Start returned nil
StartGuardStarted == running /\ lifecycle = "Running"

StartGuard == running

APIStart ==
    /\ IF StartGuard
       THEN /\ Refused("Start", "API is already running")
            /\ UNCHANGED <<running, startSeq, lifecycle>>
       ELSE /\ running' = TRUE
            /\ \E f \in 0..Len(StartOrder) :
                /\ ApiCall("Start", "-", 0, LoopError(StartOrder, f, "start"))
                /\ calls' = Invoked(StartOrder, f)
                /\ methods' = MethodsOf(Invoked(StartOrder, f), "Start")
                /\ failed' = FailedAt(f)
                /\ startSeq' = Invoked(StartOrder, f)
                /\ lifecycle' = IF f = 0 THEN "Running" ELSE lifecycle
    /\ UNCHANGED <<regVars, apiCtxDone, actVars, wsvars, extVars>>

\* Stop: the loops go over every component; F is the set of places whose Stop
\* returns an error, which is logged
\* faulty variant: a loop that returns at the first error
StopInvokedUntilError(order, F) ==
    IF F = {} THEN order
    ELSE SubSeq(order, 1, CHOOSE f \in F : \A g \in F : f <= g)

StopInvoked(order, F) == order

\* faulty variant: no guard
StopGuardOff == FALSE

StopGuard == ~running

\* faulty variant: the context is left alone
StopEffectsNoCancel == running' = FALSE /\ UNCHANGED apiCtxDone

\* running = false; cancel()
StopEffects == running' = FALSE /\ apiCtxDone' = TRUE

APIStop ==
    /\ IF StopGuard
       THEN /\ Refused("Stop", "API is not running")
            /\ UNCHANGED <<runVars, lifecycle>>
       ELSE /\ StopEffects
            /\ ApiCall("Stop", "-", 0, "nil")
            /\ \E F \in SUBSET (1..Len(StopOrder)) :
                /\ calls' = StopInvoked(StopOrder, F)
                /\ methods' = MethodsOf(StopInvoked(StopOrder, F), "Stop")
                /\ failed' = F
            /\ lifecycle' = "Stopped"
    /\ UNCHANGED <<regVars, startSeq, actVars, wsvars, extVars>>

\* ----------------------------------------------- API.Start and API.Stop, by step

\* goroutines that call Start and Stop side by side, and the calls they make
GuardCallers == 3
MaxGuardCalls == 4

GuardCallerIds == 1..GuardCallers
NotCalling == [op |-> "none", pc |-> "idle", err |-> "-", invoked |-> FALSE]

\* no call of Start or Stop is under way
NoCaller ==
    /\ gpc = [g \in GuardCallerIds |-> NotCalling]
    /\ apiMu = 0
    /\ passes = <<>>
    /\ nGuard = 0

\* faulty variant: a lock that excludes nobody
MuFreeAlways == apiMu \in 0..GuardCallers

\* a.mu can be taken
MuFree == apiMu = 0

\* the condition under which the call returns its error: running for Start,
\* not running for Stop
GuardRefuses(op) == IF op = "Start" THEN running ELSE ~running

GuardError(op) == IF op = "Start" THEN "API is already running" ELSE "API is not running"

\* a goroutine calls Start or Stop
GuardCall(g, op) ==
    /\ nGuard < MaxGuardCalls
    /\ gpc[g].pc = "idle"
    /\ gpc' = [gpc EXCEPT ![g] = [op |-> op, pc |-> "lock", err |-> "-", invoked |-> FALSE]]
    /\ nGuard' = nGuard + 1
    /\ UNCHANGED <<apiMu, passes>>
    /\ UNCHANGED <<wsvars, regVars, runVars, callVars, actVars, apiOp, nOps,
                   routeVars, httpVars, connVars, concVars, hpc>>

\* a.mu.Lock()
GuardLock(g) ==
    /\ gpc[g].pc = "lock"
    /\ MuFree
    /\ apiMu' = g
    /\ gpc' = [gpc EXCEPT ![g].pc = "check"]
    /\ UNCHANGED <<passes, nGuard>>
    /\ UNCHANGED <<wsvars, regVars, runVars, callVars, actVars, apiOp, nOps,
                   routeVars, httpVars, connVars, concVars, hpc>>

\* the test of a.running
GuardCheck(g) ==
    /\ gpc[g].pc = "check"
    /\ gpc' = [gpc EXCEPT ![g].pc = IF GuardRefuses(gpc[g].op) THEN "refuse" ELSE "set"]
    /\ UNCHANGED <<apiMu, passes, nGuard>>
    /\ UNCHANGED <<wsvars, regVars, runVars, callVars, actVars, apiOp, nOps,
                   routeVars, httpVars, connVars, concVars, hpc>>

\* the guard refuses: a.mu.Unlock() and the error is returned
GuardRefuse(g) ==
    /\ gpc[g].pc = "refuse"
    /\ apiMu' = IF apiMu = g THEN 0 ELSE apiMu
    /\ gpc' = [gpc EXCEPT ![g].pc = "idle", ![g].err = GuardError(gpc[g].op)]
    /\ UNCHANGED <<passes, nGuard>>
    /\ UNCHANGED <<wsvars, regVars, runVars, callVars, actVars, apiOp, nOps,
                   routeVars, httpVars, connVars, concVars, hpc>>

\* the guard passes: a.running = true in Start, a.running = false in Stop
GuardSet(g) ==
    /\ gpc[g].pc = "set"
    /\ running' = (gpc[g].op = "Start")
    /\ passes' = Append(passes, gpc[g].op)
    /\ gpc' = [gpc EXCEPT ![g].pc = "unlock"]
    /\ UNCHANGED <<apiMu, nGuard, apiCtxDone>>
    /\ UNCHANGED <<wsvars, regVars, callVars, actVars, apiOp, nOps,
                   routeVars, httpVars, connVars, concVars, hpc>>

\* a.mu.Unlock() before the loops
GuardUnlock(g) ==
    /\ gpc[g].pc = "unlock"
    /\ apiMu' = IF apiMu = g THEN 0 ELSE apiMu
    /\ gpc' = [gpc EXCEPT ![g].pc = "loops"]
    /\ UNCHANGED <<passes, nGuard>>
    /\ UNCHANGED <<wsvars, regVars, runVars, callVars, actVars, apiOp, nOps,
                   routeVars, httpVars, connVars, concVars, hpc>>

\* the loops over the components, with a.cancel() first in Stop, and the return
GuardLoops(g) ==
    /\ gpc[g].pc = "loops"
    /\ apiCtxDone' = (apiCtxDone \/ gpc[g].op = "Stop")
    /\ gpc' = [gpc EXCEPT ![g].pc = "idle", ![g].err = "nil", ![g].invoked = TRUE]
    /\ UNCHANGED <<apiMu, passes, nGuard, running>>
    /\ UNCHANGED <<wsvars, regVars, callVars, actVars, apiOp, nOps,
                   routeVars, httpVars, connVars, concVars, hpc>>

\* ------------------------------------------------------------ Connection.Act

\* the names Act is called with; the empty name is logged as "unknown"
ActNames == ActionNames \cup {""}

\* what the action's Run comes to: a response and an error, or a panic
RunOutcomes ==
    {[response |-> r, error |-> e] : r \in {"nil", "data"}, e \in {"nil", "run error"}}
    \cup {[response |-> "-", error |-> "panic"]}

\* the ActResult of the three return statements
\* faulty variant: the response of a failed Run is passed on
ActReturnWithResponse(name, out) ==
    IF ~ActionExists(name)
    THEN [Response |-> "nil", Error |-> "action not found: " \o name]
    ELSE [Response |-> out.response, Error |-> out.error]

ActReturn(name, out) ==
    IF ~ActionExists(name)
    THEN [Response |-> "nil", Error |-> "action not found: " \o name]
    ELSE IF out.error # "nil"
    THEN [Response |-> "nil", Error |-> out.error]
    ELSE [Response |-> out.response, Error |-> "nil"]

\* loggerStatus and err as the deferred logRequest finds them
\* faulty variant: the status is never set to ERROR
LoggerStatusUnset(name, out) == "OK"

LoggerStatus(name, out) ==
    IF ~ActionExists(name) THEN "ERROR"
    ELSE IF out.error \in {"nil", "panic"} THEN "OK"
    ELSE "ERROR"

LoggedError(name, out) ==
    IF ~ActionExists(name) THEN "action not found: " \o name
    ELSE IF out.error = "panic" THEN "nil"
    ELSE out.error

LogName(name) == IF name = "" THEN "unknown" ELSE name

\* Connection.Act with its deferred logRequest; a panic of Run passes through
\* the deferred call and out of Act
Act(name, out) ==
    /\ ApiCall("Act", name, 0,
               IF ActionExists(name) /\ out.error = "panic" THEN "panic"
               ELSE ActReturn(name, out).Error)
    /\ runs' = IF ActionExists(name) THEN runs + 1 ELSE runs
    /\ nLog' = nLog + 1
    /\ lastLog' = [status |-> LoggerStatus(name, out), action |-> LogName(name),
                   err |-> LoggedError(name, out)]
    /\ IF ActionExists(name) /\ out.error = "panic"
       THEN /\ actResult' = NoResult
            /\ Panic("action fault")
       ELSE /\ actResult' = ActReturn(name, out)
            /\ NoPanic
    /\ UNCHANGED <<regVars, runVars, callVars, extVars>>
    /\ UNCHANGED <<lifeVars, tableVars, subs, sendClosed, sock, readVars, queueVars,
                   writeVars, bcastVars, fan, histVars>>


\* ------------------------------------------------------------ compileRoute

\* strings are sequences of one-character strings
Alphabet == {"/", "a", "b", "."}
\* the characters of \w among those of the alphabet and of the patterns
WordChars == {"a", "b"}

\* longest request path matched against the patterns
MaxPath == 5

RECURSIVE StringsOf(_)
StringsOf(n) ==
    IF n = 0 THEN {<<>>}
    ELSE LET shorter == StringsOf(n - 1)
         IN  shorter \cup {Append(s, ch) : s \in {t \in shorter : Len(t) = n - 1},
                                            ch \in Alphabet}

Paths == StringsOf(MaxPath)

\* route patterns: those of the actions and of the server tests, shortened,
\* one that names a parameter twice and one with a dot in a literal segment
Patterns == { <<"/", "a">>,
              <<"/", "a", "/", "b">>,
              <<"/", "a", "/", ":", "b">>,
              <<"/", ":", "a", "/", ":", "b">>,
              <<"/", ":", "a", "/", ":", "a">>,
              <<"/", "a", ".", "b">> }

\* end of the run of \w characters of p that starts at i
RECURSIVE WordEnd(_, _)
WordEnd(p, i) ==
    IF i < Len(p) /\ p[i + 1] \in WordChars THEN WordEnd(p, i + 1) ELSE i

Literal(ch) == [kind |-> "char", ch |-> ch, name |-> <<>>]
AnyChar == [kind |-> "any", ch |-> "", name |-> <<>>]
Group(name) == [kind |-> "group", ch |-> "", name |-> name]

\* what a character compileRoute leaves as it is means to regexp.Compile
RegexpOf(ch) == IF ch = "." THEN AnyChar ELSE Literal(ch)

\* compileRoute: every :(\w+) becomes the group ([^/]+), every "/" is
\* escaped, the rest of the pattern goes to regexp.Compile as it is, and the
\* whole is anchored at both ends
RECURSIVE Elements(_, _)
Elements(p, i) ==
    IF i > Len(p) THEN <<>>
    ELSE IF p[i] = ":" /\ i < Len(p) /\ p[i + 1] \in WordChars
         THEN <<Group(SubSeq(p, i + 1, WordEnd(p, i + 1)))>>
                  \o Elements(p, WordEnd(p, i + 1) + 1)
         ELSE IF p[i] = "/" THEN <<Literal("/")>> \o Elements(p, i + 1)
              ELSE <<RegexpOf(p[i])>> \o Elements(p, i + 1)

RECURSIVE NamesOf(_)
NamesOf(re) ==
    IF re = <<>> THEN <<>>
    ELSE IF Head(re).kind = "group" THEN <<Head(re).name>> \o NamesOf(Tail(re))
         ELSE NamesOf(Tail(re))

compileRoute(p) == [pattern |-> Elements(p, 1), paramNames |-> NamesOf(Elements(p, 1))]

NoSubmatch == [ok |-> FALSE, groups |-> <<>>]

\* length of the run of characters other than "/" of s that starts at i
RECURSIVE RunLength(_, _)
RunLength(s, i) ==
    IF i <= Len(s) /\ s[i] # "/" THEN 1 + RunLength(s, i + 1) ELSE 0

\* Regexp.FindStringSubmatch of the anchored pattern: elements k.. of re
\* against s from position i on; a group takes the longest run that lets the
\* rest match
RECURSIVE Submatch(_, _, _, _)
Submatch(re, k, s, i) ==
    IF k > Len(re)
    THEN IF i > Len(s) THEN [ok |-> TRUE, groups |-> <<>>] ELSE NoSubmatch
    ELSE IF re[k].kind = "char"
    THEN IF i <= Len(s) /\ s[i] = re[k].ch THEN Submatch(re, k + 1, s, i + 1)
         ELSE NoSubmatch
    ELSE IF re[k].kind = "any"
    THEN IF i <= Len(s) THEN Submatch(re, k + 1, s, i + 1) ELSE NoSubmatch
    ELSE LET fits == {n \in 1..RunLength(s, i) : Submatch(re, k + 1, s, i + n).ok}
         IN  IF fits = {} THEN NoSubmatch
             ELSE LET n == CHOOSE m \in fits : \A o \in fits : o <= m
                  IN  [ok |-> TRUE,
                       groups |-> <<SubSeq(s, i, i + n - 1)>>
                                      \o Submatch(re, k + 1, s, i + n).groups]

FindStringSubmatch(re, s) == Submatch(re, 1, s, 1)

\* the params map matchRoute fills: params[name] = matches[i+1], in order
RECURSIVE ParamsOf(_, _, _)
ParamsOf(names, groups, i) ==
    IF i = 0 THEN <<>>
    ELSE LET before == ParamsOf(names, groups, i - 1)
         IN  [n \in DOMAIN before \cup {names[i]} |->
                 IF n = names[i] THEN groups[i] ELSE before[n]]

NoMatch == [done |-> FALSE, ok |-> FALSE, params |-> <<>>]

\* one route of matchRoute's loop: the compiled pattern against the path
MatchPattern(p, s) ==
    LET compiled == compileRoute(p)
        found == FindStringSubmatch(compiled.pattern, s)
    IN  [done |-> TRUE, ok |-> found.ok,
         params |-> IF found.ok
                    THEN ParamsOf(compiled.paramNames, found.groups,
                                  Len(compiled.paramNames))
                    ELSE <<>>]

RouteIdle == route = <<>> /\ reqPath = <<>> /\ matched = NoMatch

\* a route is compiled and a path is matched against it
MatchOne ==
    /\ ~matched.done
    /\ matched' = MatchPattern(route, reqPath)
    /\ UNCHANGED <<route, reqPath, httpVars, connVars, concVars, hpc, guardVars>>
    /\ UNCHANGED <<wsvars, regVars, runVars, callVars, actVars, apiOp, nOps>>



\* ---------------------------------------------------------------- Connection

\* goroutines that call the methods of one Connection, the channels they
\* name, and the calls they make in one run
ConnCallers == 2
MaxCalls == 4
ConnChannels == {"c", "d"}

Callers == 1..ConnCallers
Idle == [method |-> "", channel |-> ""]
NoAnswer == [channel |-> "", value |-> FALSE]

\* NewConnection: an empty Subscriptions map, the mutex free
NewConnection ==
    /\ subscriptions = <<>>
    /\ mu = [writer |-> 0, readers |-> {}]
    /\ caller = [g \in Callers |-> Idle]
    /\ lastApplied = [ch \in ConnChannels |-> "none"]
    /\ isSub = NoAnswer
    /\ nCalls = 0

ConnIdle == NewConnection

\* c.Subscriptions[channel] = true
AfterSubscribe(m, ch) == [k \in DOMAIN m \cup {ch} |-> IF k = ch THEN TRUE ELSE m[k]]

\* faulty variant: an Unsubscribe that empties the map
DeleteAll(m, ch) == <<>>

\* delete(c.Subscriptions, channel)
Delete(m, ch) == [k \in DOMAIN m \ {ch} |-> m[k]]

\* c.Subscriptions[channel]: the value, false for a key the map does not have
Lookup(m, ch) == IF ch \in DOMAIN m THEN m[ch] ELSE FALSE

\* c.mu.Lock() of Subscribe or Unsubscribe
ConnLock(g, method, ch) ==
    /\ nCalls < MaxCalls
    /\ caller[g] = Idle
    /\ mu.writer = 0 /\ mu.readers = {}
    /\ mu' = [mu EXCEPT !.writer = g]
    /\ caller' = [caller EXCEPT ![g] = [method |-> method, channel |-> ch]]
    /\ nCalls' = nCalls + 1
    /\ UNCHANGED <<subscriptions, lastApplied, isSub>>
    /\ UNCHANGED <<wsvars, regVars, runVars, callVars, actVars, apiOp, nOps,
                   routeVars, httpVars, concVars, hpc, guardVars>>

\* c.mu.RLock() of IsSubscribed
ConnRLock(g, ch) ==
    /\ nCalls < MaxCalls
    /\ caller[g] = Idle
    /\ mu.writer = 0
    /\ mu' = [mu EXCEPT !.readers = @ \cup {g}]
    /\ caller' = [caller EXCEPT ![g] = [method |-> "IsSubscribed", channel |-> ch]]
    /\ nCalls' = nCalls + 1
    /\ UNCHANGED <<subscriptions, lastApplied, isSub>>
    /\ UNCHANGED <<wsvars, regVars, runVars, callVars, actVars, apiOp, nOps,
                   routeVars, httpVars, concVars, hpc, guardVars>>

\* Connection.Subscribe under the lock, and the deferred Unlock
ConnSubscribe(g) ==
    /\ caller[g].method = "Subscribe"
    /\ subscriptions' = AfterSubscribe(subscriptions, caller[g].channel)
    /\ lastApplied' = [lastApplied EXCEPT ![caller[g].channel] = "Subscribe"]
    /\ mu' = [mu EXCEPT !.writer = 0]
    /\ caller' = [caller EXCEPT ![g] = Idle]
    /\ UNCHANGED <<isSub, nCalls>>
    /\ UNCHANGED <<wsvars, regVars, runVars, callVars, actVars, apiOp, nOps,
                   routeVars, httpVars, concVars, hpc, guardVars>>

\* Connection.Unsubscribe under the lock, and the deferred Unlock
ConnUnsubscribe(g) ==
    /\ caller[g].method = "Unsubscribe"
    /\ subscriptions' = Delete(subscriptions, caller[g].channel)
    /\ lastApplied' = [lastApplied EXCEPT ![caller[g].channel] = "Unsubscribe"]
    /\ mu' = [mu EXCEPT !.writer = 0]
    /\ caller' = [caller EXCEPT ![g] = Idle]
    /\ UNCHANGED <<isSub, nCalls>>
    /\ UNCHANGED <<wsvars, regVars, runVars, callVars, actVars, apiOp, nOps,
                   routeVars, httpVars, concVars, hpc, guardVars>>

\* Connection.IsSubscribed under the read lock, and the deferred RUnlock
ConnIsSubscribed(g) ==
    /\ caller[g].method = "IsSubscribed"
    /\ isSub' = [channel |-> caller[g].channel,
                 value |-> Lookup(subscriptions, caller[g].channel)]
    /\ mu' = [mu EXCEPT !.readers = @ \ {g}]
    /\ caller' = [caller EXCEPT ![g] = Idle]
    /\ UNCHANGED <<subscriptions, lastApplied, nCalls>>
    /\ UNCHANGED <<wsvars, regVars, runVars, callVars, actVars, apiOp, nOps,
                   routeVars, httpVars, concVars, hpc, guardVars>>

\* ------------------------------------------------------------------ mutexes

\* ws.connectionsMu, the mu of a session's Connection, and the registry's locks
Mutexes == {"connectionsMu", "Connection.mu", "actionsMu", "initializersMu",
            "serversMu", "API.mu"}

\* the fan-out worker, a session's reader, the goroutine net/http serves a
\* request on, and the goroutine driving the orchestrator
Goroutines == {"handleBroadcasts", "readWebSocket", "ServeHTTP", "main"}

LockOp(o, m) == [op |-> o, mutex |-> m]

\* a method that takes a write lock for its body
Locked(m) == <<LockOp("Lock", m), LockOp("Unlock", m)>>

\* a method that takes a read lock for its body
RLocked(m) == <<LockOp("RLock", m), LockOp("RUnlock", m)>>

\* faulty variant: a Subscribe that looks its session up in the table while it
\* holds the Connection's lock
LockOpsNested(method) ==
    CASE method = "handleBroadcasts" ->
            <<LockOp("RLock", "connectionsMu"), LockOp("RLock", "Connection.mu"),
              LockOp("RUnlock", "Connection.mu"), LockOp("RUnlock", "connectionsMu")>>
      [] method \in {"Subscribe", "Unsubscribe"} ->
            <<LockOp("Lock", "Connection.mu"), LockOp("RLock", "connectionsMu"),
              LockOp("RUnlock", "connectionsMu"), LockOp("Unlock", "Connection.mu")>>
      [] method \in {"handleWebSocket", "removeConnection", "Stop"} -> Locked("connectionsMu")
      [] method = "GetAction" -> RLocked("actionsMu")
      [] method = "RegisterAction" -> Locked("actionsMu")
      [] method = "RegisterInitializer" -> Locked("initializersMu")
      [] method = "RegisterServer" -> Locked("serversMu")
      [] method = "IsRunning" -> RLocked("API.mu")
      [] method \in {"API.Start", "API.Stop"} ->
            Locked("API.mu") \o RLocked("initializersMu") \o RLocked("serversMu")

\* the lock operations of each method, in program order. handleBroadcasts
\* calls IsSubscribed of each session inside its read lock of the table
LockOps(method) ==
    CASE method = "handleBroadcasts" ->
            <<LockOp("RLock", "connectionsMu"), LockOp("RLock", "Connection.mu"),
              LockOp("RUnlock", "Connection.mu"), LockOp("RUnlock", "connectionsMu")>>
      [] method \in {"Subscribe", "Unsubscribe"} -> Locked("Connection.mu")
      [] method \in {"handleWebSocket", "removeConnection", "Stop"} -> Locked("connectionsMu")
      [] method = "GetAction" -> RLocked("actionsMu")
      [] method = "RegisterAction" -> Locked("actionsMu")
      [] method = "RegisterInitializer" -> Locked("initializersMu")
      [] method = "RegisterServer" -> Locked("serversMu")
      [] method = "IsRunning" -> RLocked("API.mu")
      [] method \in {"API.Start", "API.Stop"} ->
            Locked("API.mu") \o RLocked("initializersMu") \o RLocked("serversMu")

\* the locking methods each goroutine calls
CallsOf(g) ==
    CASE g = "handleBroadcasts" -> {"handleBroadcasts"}
      [] g = "readWebSocket" -> {"Subscribe", "Unsubscribe", "GetAction", "removeConnection"}
      [] g = "ServeHTTP" -> {"handleWebSocket", "IsRunning"}
      [] g = "main" -> {"RegisterAction", "RegisterInitializer", "RegisterServer",
                        "API.Start", "API.Stop", "Stop"}

Outside == [method |-> "", next |-> 0]
FreeMutex == [writer |-> "", readers |-> {}, pending |-> {}]

\* every mutex free, every goroutine outside the locking methods
Unlocked ==
    /\ mutexes = [m \in Mutexes |-> FreeMutex]
    /\ at = [g \in Goroutines |-> Outside]

\* the lock operation a goroutine is at
NextOp(g) == LockOps(at[g].method)[at[g].next]

\* sync.RWMutex: Lock needs the mutex free; RLock needs no writer, neither in
\* nor waiting; the unlocks never block
Granted(g) ==
    LET o == NextOp(g)
        m == mutexes[o.mutex]
    IN  CASE o.op = "Lock" -> m.writer = "" /\ m.readers = {}
          [] o.op = "RLock" -> m.writer = "" /\ m.pending \subseteq {g}
          [] OTHER -> TRUE

AfterOp(g) ==
    LET o == NextOp(g)
        m == mutexes[o.mutex]
    IN  CASE o.op = "Lock" -> [m EXCEPT !.writer = g, !.pending = @ \ {g}]
          [] o.op = "RLock" -> [m EXCEPT !.readers = @ \cup {g}]
          [] o.op = "Unlock" -> [m EXCEPT !.writer = ""]
          [] o.op = "RUnlock" -> [m EXCEPT !.readers = @ \ {g}]

\* a goroutine enters one of its locking methods
Call(g, method) ==
    /\ at[g] = Outside
    /\ method \in CallsOf(g)
    /\ at' = [at EXCEPT ![g] = [method |-> method, next |-> 1]]
    /\ UNCHANGED mutexes
    /\ UNCHANGED <<wsvars, regVars, runVars, callVars, actVars, apiOp, nOps,
                   routeVars, httpVars, connVars, hpc, guardVars>>

\* a Lock that finds the mutex taken announces itself and blocks
LockWait(g) ==
    /\ at[g] # Outside
    /\ NextOp(g).op = "Lock"
    /\ ~Granted(g)
    /\ g \notin mutexes[NextOp(g).mutex].pending
    /\ mutexes' = [mutexes EXCEPT ![NextOp(g).mutex].pending = @ \cup {g}]
    /\ UNCHANGED at
    /\ UNCHANGED <<wsvars, regVars, runVars, callVars, actVars, apiOp, nOps,
                   routeVars, httpVars, connVars, hpc, guardVars>>

\* the goroutine's next lock operation; the method returns after its last
LockStep(g) ==
    /\ at[g] # Outside
    /\ Granted(g)
    /\ mutexes' = [mutexes EXCEPT ![NextOp(g).mutex] = AfterOp(g)]
    /\ at' = [at EXCEPT ![g] = IF at[g].next = Len(LockOps(at[g].method))
                                THEN Outside
                                ELSE [at[g] EXCEPT !.next = @ + 1]]
    /\ UNCHANGED <<wsvars, regVars, runVars, callVars, actVars, apiOp, nOps,
                   routeVars, httpVars, connVars, hpc, guardVars>>

\* ----------------------------------------------------- WebServer.Initialize

\* Initialize calls made on one server
MaxInitializations == 1

\* the actions of the gateway's specification: two routes that overlap (as
\* /users/:id and /users/me do), a route of another method on the same path,
\* and an action with no route
WebActionNames == {"show", "me", "make", "task"}

NoWeb == [route |-> <<>>, method |-> ""]

\* Action.Web()
Web(name) ==
    CASE name = "show" -> [route |-> <<"/", "a", "/", ":", "b">>, method |-> "GET"]
      [] name = "me"   -> [route |-> <<"/", "a", "/", "b">>, method |-> "GET"]
      [] name = "make" -> [route |-> <<"/", "a", "/", ":", "b">>, method |-> "POST"]
      [] OTHER -> NoWeb

Routed == {n \in WebActionNames : Web(n) # NoWeb}

\* the orders in which a range over a map may visit the keys of names
Orders(names) ==
    {o \in [1..Cardinality(names) -> names] : \A i, j \in DOMAIN o : o[i] = o[j] => i = j}

\* config.WebServer.APIRoute ("/api" by default)
APIRoute == <<"/", "p">>

NoRequest == [method |-> "", path |-> <<>>, query |-> <<>>, contentType |-> "",
              body |-> <<>>, outcome |-> ""]
Unserved == [status |-> -1, envelopes |-> <<>>]
NotRun == [action |-> "", params |-> <<>>, outcome |-> ""]

HttpIdle ==
    /\ routes = <<>>
    /\ registered = <<>>
    /\ nInit = 0
    /\ req = NoRequest
    /\ resp = Unserved
    /\ ran = NotRun
    /\ httpRuns = 0

ExtIdle == RouteIdle /\ HttpIdle /\ ConnIdle /\ Unlocked /\ NoUpgrade /\ NoCaller

\* API.GetActions: the slice a range over the map a.actions fills
GetActions == Orders({n \in DOMAIN actions : ActionExists(n)})

HasWeb(name) == Web(name) # NoWeb

\* Initialize appends one route entry per action with a route, in the order
\* of the slice GetActions returned
WebServerInitialize ==
    /\ nInit < MaxInitializations
    /\ \E all \in GetActions : routes' = routes \o SelectSeq(all, HasWeb)
    /\ nInit' = nInit + 1
    /\ UNCHANGED <<registered, req, resp, ran, httpRuns, routeVars, connVars, concVars, hpc, guardVars>>
    /\ UNCHANGED <<wsvars, regVars, runVars, callVars, actVars, apiOp, nOps>>

\* ---------------------------------------------------------------- handleHTTP

HasPrefix(s, prefix) ==
    Len(s) >= Len(prefix) /\ SubSeq(s, 1, Len(prefix)) = prefix

TrimPrefix(s, prefix) ==
    IF HasPrefix(s, prefix) THEN SubSeq(s, Len(prefix) + 1, Len(s)) ELSE s

\* faulty variant: a loop that does not compare the methods
MethodAlwaysMatches(routeMethod, method) == TRUE

MethodMatches(routeMethod, method) == routeMethod = method

\* matchRoute's loop: the place in rs of the first route from i on whose
\* method and pattern match, 0 if none does
RECURSIVE FirstMatch(_, _, _, _)
FirstMatch(rs, i, method, path) ==
    IF i > Len(rs) THEN 0
    ELSE IF /\ MethodMatches(Web(rs[i]).method, method)
            /\ MatchPattern(Web(rs[i]).route, path).ok
         THEN i
         ELSE FirstMatch(rs, i + 1, method, path)

matchRoute(method, path) ==
    LET stripped == IF APIRoute # <<>> /\ HasPrefix(path, APIRoute)
                    THEN TrimPrefix(path, APIRoute) ELSE path
        i == FirstMatch(routes, 1, method, stripped)
    IN  IF i = 0 THEN [err |-> TRUE, action |-> "", params |-> <<>>]
        ELSE [err |-> FALSE, action |-> routes[i],
              params |-> MatchPattern(Web(routes[i]).route, stripped).params]

\* parameter values: a string, or a list of strings
Str(text) == [kind |-> "string", text |-> text, items |-> <<>>]
List(items) == [kind |-> "list", text |-> <<>>, items |-> items]

\* faulty variant: a merge that keeps the value a key already has
MergeKeepsFirst(base, over) ==
    [k \in DOMAIN base \cup DOMAIN over |-> IF k \in DOMAIN base THEN base[k] ELSE over[k]]

\* a map filled from another: the keys of both, the values of over on the
\* keys both have
Merge(base, over) ==
    [k \in DOMAIN base \cup DOMAIN over |-> IF k \in DOMAIN over THEN over[k] ELSE base[k]]

\* url.Values to parameters: a key with one value gives the value, any
\* other gives the list
Values(form) ==
    [k \in DOMAIN form |-> IF Len(form[k]) = 1 THEN Str(form[k][1]) ELSE List(form[k])]

Malformed == [bad |-> TRUE]

\* parseRequest
parseRequest(r, pathParams) ==
    LET path == [k \in DOMAIN pathParams |-> Str(pathParams[k])]
        query == Merge(path, Values(r.query))
    IN  IF r.method \in {"POST", "PUT", "PATCH"}
        THEN IF r.contentType = "application/json"
             THEN IF r.body = Malformed THEN [err |-> TRUE, params |-> <<>>]
                  ELSE [err |-> FALSE, params |-> Merge(query, r.body)]
             ELSE IF r.contentType = "application/x-www-form-urlencoded"
             THEN IF r.body = Malformed THEN [err |-> TRUE, params |-> <<>>]
                  ELSE [err |-> FALSE, params |-> Merge(query, Values(r.body))]
             ELSE [err |-> FALSE, params |-> query]
        ELSE [err |-> FALSE, params |-> query]

NoEnvelope == [status |-> 0, envelopes |-> <<>>]
Preflight == [status |-> 200, envelopes |-> <<>>]

sendSuccess == [status |-> 200, envelopes |-> <<[success |-> TRUE, code |-> ""]>>]
sendError(status, code) ==
    [status |-> status, envelopes |-> <<[success |-> FALSE, code |-> code]>>]

\* handleHTTP; executeAction calls the action's Run, and a panic of Run
\* unwinds the handler before anything is written (net/http recovers it and
\* closes the connection)
handleHTTP(r) ==
    LET found == matchRoute(r.method, r.path)
        parsed == parseRequest(r, found.params)
    IN  IF found.err
        THEN [resp |-> sendError(404, "ROUTE_NOT_FOUND"), ran |-> NotRun]
        ELSE IF parsed.err
        THEN [resp |-> sendError(400, "INVALID_REQUEST"), ran |-> NotRun]
        ELSE [ran |-> [action |-> found.action, params |-> parsed.params,
                       outcome |-> r.outcome],
              resp |-> CASE r.outcome = "result" -> sendSuccess
                         [] r.outcome = "typed error" ->
                                sendError(500, "CONNECTION_ACTION_RUN")
                         [] r.outcome = "error" -> sendError(500, "INTERNAL_ERROR")
                         [] OTHER -> NoEnvelope]

\* corsMiddleware around the mux
corsMiddleware(r) ==
    IF r.method = "OPTIONS" THEN [resp |-> Preflight, ran |-> NotRun]
    ELSE handleHTTP(r)

HttpMethods == {"GET", "POST", "PUT", "OPTIONS"}

\* /api/a/b, /api/a/a, /api/a (a strict prefix), /api/b/b (no such route)
HttpPaths == { <<"/", "p", "/", "a", "/", "b">>,
               <<"/", "p", "/", "a", "/", "a">>,
               <<"/", "p", "/", "a">>,
               <<"/", "p", "/", "b", "/", "b">> }

Key(ch) == <<ch>>
NoParams == <<>>

\* query string, content type and body of the requests: nothing; a query
\* string alone, with a key that a path parameter has too; a query key
\* given twice with a JSON object that repeats keys of the path and of the
\* query; a body that is not JSON; a form body with a key given twice; and
\* a body of another content type
Payloads ==
    { [query |-> NoParams, contentType |-> "", body |-> NoParams],
      [query |-> (Key("b") :> <<"q">>) @@ (Key("k") :> <<"q">>),
       contentType |-> "", body |-> NoParams],
      [query |-> (Key("k") :> <<"q", "r">>), contentType |-> "application/json",
       body |-> (Key("b") :> Str("B")) @@ (Key("k") :> Str("B")) @@ (Key("m") :> Str("B"))],
      [query |-> NoParams, contentType |-> "application/json", body |-> Malformed],
      [query |-> (Key("k") :> <<"q">>),
       contentType |-> "application/x-www-form-urlencoded",
       body |-> (Key("k") :> <<"B">>) @@ (Key("m") :> <<"B", "C">>)],
      [query |-> NoParams, contentType |-> "text/plain",
       body |-> (Key("m") :> Str("B"))] }

\* what the action's Run does when it is called
HttpOutcomes == {"result", "error", "typed error", "panic"}

Requests ==
    {[method |-> m, path |-> p, query |-> l.query, contentType |-> l.contentType,
      body |-> l.body, outcome |-> o] :
        m \in HttpMethods, p \in HttpPaths, l \in Payloads, o \in HttpOutcomes}

\* the request goes through the handler chain of the HTTP server
ServeHTTP ==
    /\ ~crashed
    /\ nInit > 0
    /\ req # NoRequest
    /\ resp = Unserved
    /\ \E out \in {corsMiddleware(req)} :
          /\ resp' = out.resp
          /\ ran' = out.ran
          /\ httpRuns' = IF out.ran = NotRun THEN httpRuns ELSE httpRuns + 1
    /\ UNCHANGED <<routes, registered, nInit, req, routeVars, connVars, concVars, hpc, guardVars>>
    /\ UNCHANGED <<wsvars, regVars, runVars, callVars, actVars, apiOp, nOps>>

\* ------------------------------------------------------------ specifications

Init ==
    /\ NewWebServer
    /\ maxConns = SoloClients
    /\ Registered
    /\ ExtIdle

Reader(c) ==
    \/ \E e \in Envelopes : ReadEnvelope(c, e)
    \/ PushReply(c)
    \/ ReadFail(c)
    \/ removeConnectionDelete(c)
    \/ removeConnectionClose(c)
    \/ removeConnectionCloseSocket(c)

Fanout ==
    \/ FanoutTake
    \/ \E c \in Conns : FanoutPush(c)
    \/ FanoutExit

WebServerStop ==
    \/ StopCancel
    \/ StopCloseAll
    \/ StopShutdown
    \/ StopWait

Next ==
    \/ WebServerStart
    \/ handleWebSocket
    \/ \E c \in Conns : PeerGone(c)
    \/ \E c \in Conns : Reader(c)
    \/ \E c \in Conns : writeWebSocket(c)
    \/ \E ch \in Channels : Broadcast(ch)
    \/ Fanout
    \/ WebServerStop

Spec == Init /\ [][Next]_vars

\* the orchestrator and the registry, before any client connects
InitApi ==
    /\ NewWebServer
    /\ maxConns = 0
    /\ New
    /\ ExtIdle

NextApi ==
    \/ \E a \in ActionObjects : RegisterAction(a)
    \/ \E i \in InitializerNames : RegisterInitializer(i)
    \/ \E sv \in ServerNames : RegisterServer(sv)
    \/ APIInitialize
    \/ APIStart
    \/ APIStop

SpecApi == InitApi /\ [][NextApi]_vars

\* the registry and the dispatch of actions through Connection.Act
NextAct ==
    \/ \E a \in ActionObjects : RegisterAction(a)
    \/ \E name \in ActNames, out \in RunOutcomes : Act(name, out)

SpecAct == InitApi /\ [][NextAct]_vars

\* the worker goroutines are scheduled fairly and a socket write returns; what
\* the clients and the callers of Broadcast and Stop do is not constrained
WorkerStep(c) ==
    \/ PushReply(c)
    \/ ReadFail(c)
    \/ removeConnectionDelete(c)
    \/ removeConnectionClose(c)
    \/ removeConnectionCloseSocket(c)

StopStep ==
    \/ StopCloseAll
    \/ StopShutdown
    \/ StopWait

Fairness ==
    /\ WF_vars(Fanout)
    /\ WF_vars(StopStep)
    /\ \A c \in SoloConns : WF_vars(WorkerStep(c))
    /\ \A c \in SoloConns : WF_vars(writeWebSocket(c))

FairSpec == Spec /\ Fairness

\* the gateway with removeConnection as an operation of its own
NextUnit ==
    \/ Next
    \/ \E c \in Conns : RemoveAgain(c)

SpecUnit == Init /\ [][NextUnit]_vars

\* the HTTP gateway over an API whose actions were registered in some order,
\* and a client with a request
InitHttp ==
    /\ NewWebServer
    /\ maxConns = 0
    /\ actions = [n \in WebActionNames |-> 1]
    /\ initializers = <<>>
    /\ servers = <<"web">>
    /\ running = FALSE
    /\ apiCtxDone = FALSE
    /\ calls = <<>>
    /\ apiOp = NoOp
    /\ nOps = 0
    /\ methods = <<>>
    /\ failed = {}
    /\ startSeq = <<>>
    /\ lifecycle = "Created"
    /\ nLog = 0
    /\ lastLog = NoLog
    /\ actResult = NoResult
    /\ runs = 0
    /\ RouteIdle
    /\ routes = <<>>
    /\ registered \in Orders(Routed)
    /\ nInit = 0
    /\ req \in Requests
    /\ resp = Unserved
    /\ ran = NotRun
    /\ httpRuns = 0
    /\ ConnIdle
    /\ Unlocked
    /\ NoUpgrade
    /\ NoCaller

NextHttp ==
    \/ WebServerInitialize
    \/ ServeHTTP

SpecHttp == InitHttp /\ [][NextHttp]_vars

\* one session and every kind of inbound envelope, with no broadcast and no
\* shutdown
NextWs ==
    \/ WebServerStart
    \/ handleWebSocket
    \/ \E c \in Conns : PeerGone(c)
    \/ \E c \in Conns : \E e \in AllEnvelopes : ReadEnvelope(c, e)
    \/ \E c \in Conns : PushReply(c)
    \/ \E c \in Conns : ReadFail(c)
    \/ \E c \in Conns : removeConnectionDelete(c)
    \/ \E c \in Conns : removeConnectionClose(c)
    \/ \E c \in Conns : removeConnectionCloseSocket(c)
    \/ \E c \in Conns : writeWebSocket(c)

SpecWs == Init /\ [][NextWs]_vars

\* goroutines calling the subscription methods of one Connection
NextConn ==
    \/ \E g \in Callers : \E ch \in ConnChannels :
          \E method \in {"Subscribe", "Unsubscribe"} : ConnLock(g, method, ch)
    \/ \E g \in Callers : \E ch \in ConnChannels : ConnRLock(g, ch)
    \/ \E g \in Callers : ConnSubscribe(g)
    \/ \E g \in Callers : ConnUnsubscribe(g)
    \/ \E g \in Callers : ConnIsSubscribed(g)

SpecConn == InitApi /\ [][NextConn]_vars

\* compileRoute and the match of one path, for every pattern and every path
InitRoute ==
    /\ NewWebServer
    /\ maxConns = 0
    /\ New
    /\ route \in Patterns
    /\ reqPath \in Paths
    /\ matched = NoMatch
    /\ HttpIdle
    /\ ConnIdle
    /\ Unlocked
    /\ NoUpgrade
    /\ NoCaller

NextRoute == MatchOne

SpecRoute == InitRoute /\ [][NextRoute]_vars

\* the fan-out engine among several clients, with no shutdown
InitFan ==
    /\ NewWebServer
    /\ maxConns = FanClients
    /\ Registered
    /\ ExtIdle

NextFan ==
    \/ WebServerStart
    \/ handleWebSocket
    \/ \E c \in Conns : PeerGone(c)
    \/ \E c \in Conns : Reader(c)
    \/ \E c \in Conns : writeWebSocket(c)
    \/ \E ch \in Channels : Broadcast(ch)
    \/ FanoutTake
    \/ \E c \in Conns : FanoutPush(c)

SpecFan == InitFan /\ [][NextFan]_vars

\* several sessions that come and go, with every kind of inbound envelope
SpecTable == InitFan /\ [][NextWs]_vars

\* the goroutines of the gateway and of the orchestrator, at the level of their
\* lock operations
NextLocks ==
    \/ \E g \in Goroutines : \E method \in CallsOf(g) : Call(g, method)
    \/ \E g \in Goroutines : LockWait(g)
    \/ \E g \in Goroutines : LockStep(g)

SpecLocks == InitApi /\ [][NextLocks]_vars

\* the sessions of the connection table, the handler of an upgrade taken
\* statement by statement
NextUpgrade ==
    \/ WebServerStart
    \/ \E c \in Conns : handleWebSocketStep(c)
    \/ \E c \in Conns : PeerGone(c)
    \/ \E c \in Conns : Reader(c)
    \/ \E c \in Conns : writeWebSocket(c)

SpecUpgrade == InitFan /\ [][NextUpgrade]_vars

\* Start and Stop called by several goroutines at once
NextGuard ==
    \/ \E g \in GuardCallerIds : \E op \in {"Start", "Stop"} : GuardCall(g, op)
    \/ \E g \in GuardCallerIds : GuardLock(g)
    \/ \E g \in GuardCallerIds : GuardCheck(g)
    \/ \E g \in GuardCallerIds : GuardRefuse(g)
    \/ \E g \in GuardCallerIds : GuardSet(g)
    \/ \E g \in GuardCallerIds : GuardUnlock(g)
    \/ \E g \in GuardCallerIds : GuardLoops(g)

SpecGuard == InitApi /\ [][NextGuard]_vars

\* ------------------------------------------------------------------ claims

\* how often the envelope of the k-th Broadcast call occurs in a sequence
IsCall(m, k) == m.type = "broadcast" /\ m.data = Payload(k)
Occurrences(q, k) == Cardinality({i \in 1..Len(q) : IsCall(q[i], k)})

\* the session is no longer connected, or the system is shutting down
Excused(c, k) ==
    \/ ctxDone
    \/ crashed
    \/ sock[c] # "open"
    \/ <<c, k>> \in dropped

\* C1: a session subscribed to the channel from the Broadcast call to the fan-out
\* of its message, and staying connected, gets the envelope of that call pushed
\* exactly once and eventually written to its socket (barring overflow and
\* shutdown); a session not subscribed over that time gets none
C1_BroadcastDelivery ==
    /\ [](\A c \in Conns, k \in 1..MaxBroadcasts :
            /\ Occurrences(pushed[c], k) <= 1
            /\ Occurrences(written[c], k) <= 1
            /\ c \in nonsub[k] => Occurrences(pushed[c], k) = 0)
    /\ \A c \in SoloConns, k \in 1..MaxBroadcasts :
            (c \in eligible[k]) ~>
                (Occurrences(written[c], k) = 1 \/ c \notin eligible[k] \/ Excused(c, k))

C1_Witness ==
    \E c \in Conns, k \in 1..MaxBroadcasts :
        /\ c \in eligible[k]
        /\ Occurrences(written[c], k) = 1
        /\ \E j \in 1..MaxBroadcasts : c \in nonsub[j] /\ j <= bcastCalls /\ fan.state = "idle"
                                        /\ broadcast = <<>>

\* C2: once Stop is called, Stop eventually returns with every worker gone
AllWorkersGone ==
    /\ fan.state = "exit"
    /\ \A c \in Conns : rpc[c] \in {"none", "exit"} /\ wpc[c] \in {"none", "exit"}

C2_StopCompletes == (stopPc # "idle") ~> ((stopPc = "done" /\ AllWorkersGone) \/ crashed)

\* C3: no serving worker reaches a fatal condition (a push onto a closed queue, a
\* second close of a queue, an unrecovered fault of an action)
C3_NoCrash == ~crashed

\* C4: the steps of a second removeConnection for a session change neither the
\* table, nor the queue's closed state, nor the socket, and do not panic
InRemove(c) == rpc[c] \in {"remove", "closeq", "closesock"}

C4_RemoveIdempotent ==
    [][\A c \in Conns :
        (nRemove[c] = 2 /\ InRemove(c) /\ (rpc'[c] # rpc[c] \/ crashed'))
            => /\ connections' = connections
               /\ sendClosed'[c] = sendClosed[c]
               /\ sock'[c] = sock[c]
               /\ ~crashed']_vars

\* C5: once the shared context is cancelled, every Broadcast call returns an
\* error and leaves the broadcast queue as it was
C5_BroadcastFailsOnShutdown ==
    [][(ctxDone /\ bcastCalls' # bcastCalls)
            => (bres' # "nil" /\ broadcast' = broadcast)]_vars

Visits(c) ==
    /\ fan.state = "iter"
    /\ c \in fan.rem
    /\ fan'.state # "iter" \/ c \notin fan'.rem

C7_FanoutIsolation ==
    /\ [](fan.state = "iter" /\ ~crashed => \A c \in fan.rem : ENABLED FanoutPush(c))
    /\ [][\A c \in Conns : Visits(c) =>
            /\ send'[c] = IF IsSubscribed(c, fan.msg.channel) /\ Len(send[c]) < SendCap
                           THEN Append(send[c], fan.msg.data)
                           ELSE send[c]
            /\ \A d \in Conns \ {c} : send'[d] = send[d]
            /\ fan.rem \ {c} # {} => (fan'.state = "iter" /\ fan'.rem = fan.rem \ {c}
                                        /\ fan'.msg = fan.msg)
            /\ fan.rem = {c} => fan'.state = "idle"]_vars

C7_Witness ==
    \E c, d \in Conns, k \in 1..MaxBroadcasts :
        /\ c # d
        /\ <<c, k>> \in dropped
        /\ Occurrences(pushed[d], k) = 1

\* C8: a session's socket gets the messages in the order they were pushed onto
\* its queue, each at most once: what was written, then a message lost to a
\* failed write if the writer ended that way, then what is queued, is what was
\* pushed
C8_PerConnectionOrder ==
    \A c \in Conns :
        \/ pushed[c] = written[c] \o send[c]
        \/ /\ wpc[c] = "exit"
           /\ Len(pushed[c]) = Len(written[c]) + 1 + Len(send[c])
           /\ SubSeq(pushed[c], 1, Len(written[c])) = written[c]
           /\ SubSeq(pushed[c], Len(written[c]) + 2, Len(pushed[c])) = send[c]

C8_Witness ==
    \E c \in Conns :
        /\ Len(written[c]) >= 2
        /\ \E i, j \in 1..Len(written[c]) :
                written[c][i].type = "broadcast" /\ written[c][j].type # "broadcast"

\* C9: registering an action under a name already registered returns an error
\* and leaves the registry as it was, the first registered action still there
C9_DuplicateRegistration ==
    [][\A n \in ActionNames :
        (nOps' # nOps /\ apiOp'.op = "RegisterAction" /\ apiOp'.name = n
                /\ ActionExists(n))
            => /\ apiOp'.err # "nil"
               /\ actions' = actions
               /\ GetAction(n)' = GetAction(n)
               /\ ActionExists(n)']_vars

C9_Witness ==
    /\ apiOp.op = "RegisterAction"
    /\ apiOp.err # "nil"
    /\ actions[apiOp.name] # 0
    /\ actions[apiOp.name] # apiOp.obj

\* C10: Initialize and Start invoke the initializers in ascending priority
\* order whatever the registration order, then the servers, and with no failure
\* invoke every registered component
C10_AscendingPriority ==
    apiOp.op \in {"Initialize", "Start"} =>
        /\ \A i, j \in 1..Len(calls) :
            i < j =>
                /\ (calls[i].kind = "initializer" /\ calls[j].kind = "initializer")
                        => Priority[calls[i].name] <= Priority[calls[j].name]
                /\ ~(calls[i].kind = "server" /\ calls[j].kind = "initializer")
        /\ (apiOp.err = "nil") =>
                /\ Len(calls) = Len(initializers) + Len(servers)
                /\ \A n \in InitializerNames :
                    Cardinality({i \in 1..Len(calls) :
                            calls[i] = Component("initializer", n)})
                        = Cardinality({i \in 1..Len(initializers) : initializers[i] = n})
                /\ \A i \in 1..Len(servers) :
                    calls[Len(initializers) + i] = Component("server", servers[i])

C10_Witness ==
    /\ apiOp.op = "Start"
    /\ apiOp.err = "nil"
    /\ Len(initializers) = MaxInits
    /\ Len(servers) >= 1
    /\ \E i, j \in 1..Len(initializers) :
            i < j /\ Priority[initializers[i]] > Priority[initializers[j]]

\* how often x occurs in the sequence q
Count(q, x) == Cardinality({i \in 1..Len(q) : q[i] = x})

\* C11: a Stop past the guard stops the servers before any initializer, the
\* initializers in descending priority order, and every component before each
\* component that the last Start started earlier than it
C11_ReverseTeardown ==
    (apiOp.op = "Stop" /\ apiOp.err = "nil") =>
        /\ \A p, q \in 1..Len(calls) :
            p < q =>
                /\ ~(calls[p].kind = "initializer" /\ calls[q].kind = "server")
                /\ (calls[p].kind = "initializer" /\ calls[q].kind = "initializer")
                        => Priority[calls[p].name] >= Priority[calls[q].name]
        /\ \A i, j \in 1..Len(startSeq) :
            (/\ i < j
             /\ Count(startSeq, startSeq[i]) = 1 /\ Count(startSeq, startSeq[j]) = 1
             /\ Count(calls, startSeq[i]) = 1 /\ Count(calls, startSeq[j]) = 1)
                => \E p, q \in 1..Len(calls) :
                        /\ calls[q] = startSeq[j]
                        /\ calls[p] = startSeq[i]
                        /\ q < p

\* a step that is a call of the API method op
IsCallOf(op) == nOps' # nOps /\ apiOp'.op = op

\* C12: Start on a running API returns the already-running error, invokes no
\* component and leaves the running state, the context and the registry alone
C12_StartWhileRunning ==
    [][(IsCallOf("Start") /\ running)
            => /\ apiOp'.err = "API is already running"
               /\ calls' = <<>>
               /\ running' = running
               /\ apiCtxDone' = apiCtxDone
               /\ startSeq' = startSeq
               /\ regVars' = regVars]_vars

C12_Witness ==
    /\ apiOp.op = "Start"
    /\ apiOp.err = "API is already running"
    /\ running
    /\ Len(StartOrder) >= 2

\* C13: Stop on an API that is not running returns the not-running error,
\* invokes no component, does not cancel the context and leaves the running
\* state alone
C13_StopWhileNotRunning ==
    [][(IsCallOf("Stop") /\ ~running)
            => /\ apiOp'.err = "API is not running"
               /\ calls' = <<>>
               /\ running' = running
               /\ apiCtxDone' = apiCtxDone
               /\ regVars' = regVars]_vars

C13_Witness ==
    /\ apiOp.op = "Stop"
    /\ apiOp.err = "API is not running"
    /\ ~running
    /\ ~apiCtxDone
    /\ Len(StopOrder) >= 2

\* the error Initialize or Start returns when the component c fails
WrappedError(op, c) ==
    "failed to " \o (IF op = "Initialize" THEN "initialize" ELSE "start")
        \o (IF c.kind = "server" THEN " server " ELSE " ") \o c.name

\* C14: when a component fails during Initialize or Start, no later component
\* is invoked, the call returns that failure wrapped with the component's name,
\* and nothing is stopped or rolled back
C14_FailureAborts ==
    (apiOp.op \in {"Initialize", "Start"} /\ failed # {}) =>
        /\ Len(calls) >= 1
        /\ Len(calls) <= Len(StartOrder)
        /\ calls = SubSeq(StartOrder, 1, Len(calls))
        /\ failed = {Len(calls)}
        /\ apiOp.err = WrappedError(apiOp.op, calls[Len(calls)])
        /\ \A i \in 1..Len(methods) : methods[i] = apiOp.op
        /\ Len(methods) = Len(calls)

C14_Witness ==
    /\ apiOp.op = "Start"
    /\ failed # {}
    /\ Len(calls) >= 2
    /\ Len(calls) < Len(StartOrder)

\* C15: a Stop past the guard invokes the Stop of every registered server and
\* initializer once, whichever of them fail, and returns no error
C15_StopBestEffort ==
    [][(IsCallOf("Stop") /\ running)
            => /\ apiOp'.err = "nil"
               /\ Len(calls') = Len(servers) + Len(initializers)
               /\ \A n \in ServerNames :
                    Count(calls', Component("server", n)) = Count(servers, n)
               /\ \A n \in InitializerNames :
                    Count(calls', Component("initializer", n)) = Count(initializers, n)
               /\ \A i \in 1..Len(methods') : methods'[i] = "Stop"
               /\ Len(methods') = Len(calls')]_vars

C15_Witness ==
    /\ apiOp.op = "Stop"
    /\ apiOp.err = "nil"
    /\ 1 \in failed
    /\ Len(calls) >= 3

C18_ContextCancelled ==
    /\ ~running /\ ~apiCtxDone
    /\ [][/\ apiCtxDone => apiCtxDone'
          /\ (IsCallOf("Stop") /\ running) => apiCtxDone'
          /\ (~apiCtxDone /\ apiCtxDone') => (IsCallOf("Stop") /\ running)]_vars

C18_Witness ==
    /\ apiCtxDone
    /\ running
    /\ apiOp.op = "Start"
    /\ apiOp.err = "nil"

\* C19: every call of Connection.Act logs exactly one request line; when the
\* call returns, the line is tagged ERROR if the result carries an error and
\* OK if it does not
C19_OneLogLine ==
    [][IsCallOf("Act")
            => /\ nLog' = nLog + 1
               /\ lastLog'.status \in {"OK", "ERROR"}
               /\ ~crashed' =>
                    (lastLog'.status = "ERROR" <=> actResult'.Error # "nil")]_vars

C19_Witness ==
    /\ apiOp.op = "Act"
    /\ nLog >= 3
    /\ lastLog.status = "ERROR"
    /\ actResult.Error = "run error"
    /\ runs >= 2

\* C20: Connection.Act of a name that is not registered returns the
\* action-not-found error and no response and runs no action; a result with
\* an error has no response and a result with a response has no error
C20_NotFound ==
    [][\A name \in ActNames :
        (IsCallOf("Act") /\ apiOp'.name = name /\ ~crashed')
            => /\ ~ActionExists(name) =>
                    /\ actResult'.Error = "action not found: " \o name
                    /\ actResult'.Response = "nil"
                    /\ runs' = runs
               /\ actResult'.Error # "nil" => actResult'.Response = "nil"
               /\ actResult'.Response # "nil" => actResult'.Error = "nil"]_vars

C20_Witness ==
    /\ apiOp.op = "Act"
    /\ ~ActionExists(apiOp.name)
    /\ apiOp.name \in ActionNames
    /\ \E n \in ActionNames : ActionExists(n)
    /\ actResult = [Response |-> "nil", Error |-> "action not found: " \o apiOp.name]
    /\ runs = 0

\* a step in which a transport calls the Run of a registered action: the
\* HTTP handler through executeAction, or the WebSocket reader handling an
\* action envelope
TransportRuns ==
    \/ httpRuns' # httpRuns
    \/ \E c \in Conns : \E e \in Envelopes :
          e.type = "action" /\ ActionExists(e.action) /\ ReadEnvelope(c, e)

\* C21: every HTTP request that resolves to an action and every WebSocket
\* action envelope makes exactly one call of Connection.Act, which logs exactly
\* one line for it; no transport runs an action outside that call
C21_SingleFunnel == [][TransportRuns => nLog' = nLog + 1]_vars

\* the segments of a path or of a pattern, as strings.Split(s, "/") gives them
RECURSIVE Split(_)
Split(s) ==
    IF \A i \in DOMAIN s : s[i] # "/" THEN <<s>>
    ELSE LET cut == CHOOSE i \in DOMAIN s : s[i] = "/" /\ \A j \in 1..(i - 1) : s[j] # "/"
         IN  <<SubSeq(s, 1, cut - 1)>> \o Split(SubSeq(s, cut + 1, Len(s)))

\* a pattern segment that is a :name token
IsToken(seg) ==
    /\ Len(seg) >= 2
    /\ seg[1] = ":"
    /\ \A i \in 2..Len(seg) : seg[i] \in WordChars

\* the places of the :name tokens among the segments of a pattern, in order
TokenPlaces(p) == {j \in DOMAIN Split(p) : IsToken(Split(p)[j])}

\* C23: a path that matches a pattern with N :name tokens yields exactly N
\* parameters, one per token, each bound to the text of the path segment at
\* the token's place
C23_ParamsPerToken ==
    (matched.done /\ matched.ok) =>
        /\ Cardinality(DOMAIN matched.params) = Cardinality(TokenPlaces(route))
        /\ \A j \in TokenPlaces(route) :
              LET name == Tail(Split(route)[j])
              IN  /\ name \in DOMAIN matched.params
                  /\ matched.params[name] = Split(reqPath)[j]

\* the path matches the pattern segment by segment: as many segments, a
\* non-empty one for each token, the same one for each literal segment
MatchesInFull(p, s) ==
    /\ Len(Split(p)) = Len(Split(s))
    /\ \A j \in DOMAIN Split(p) :
          IF IsToken(Split(p)[j]) THEN Split(s)[j] # <<>>
          ELSE Split(s)[j] = Split(p)[j]

\* C24: a compiled pattern matches a path only in full: a token matches one
\* non-empty segment without a slash, a literal segment matches only itself,
\* and neither a strict prefix nor a strict extension of a matching path matches
C24_FullMatchOnly ==
    matched.done => (matched.ok <=> MatchesInFull(route, reqPath))

\* the request has been through the handler chain
Served == resp # Unserved

\* the request path without the prefix of the API routes
Stripped == TrimPrefix(req.path, APIRoute)

\* the actions whose route has the method of the request and matches its path
Candidates ==
    {n \in Routed : Web(n).method = req.method /\ MatchesInFull(Web(n).route, Stripped)}

\* the candidate that was registered first
EarliestRegistered ==
    registered[CHOOSE i \in DOMAIN registered :
                  /\ registered[i] \in Candidates
                  /\ \A j \in 1..(i - 1) : registered[j] \notin Candidates]

\* C22: when several routes match the method and the path of a request, the
\* action that runs is the one registered first, whatever the initialization
C22_FirstRegisteredWins ==
    (Served /\ ran # NotRun) => ran.action = EarliestRegistered

\* C25 as stated: a request that matches no route gets status 404 with the
\* code ROUTE_NOT_FOUND and runs no action
C25_NoRouteIs404 ==
    (Served /\ Candidates = {}) =>
        /\ resp.status = 404
        /\ Len(resp.envelopes) = 1
        /\ resp.envelopes[1].code = "ROUTE_NOT_FOUND"
        /\ ran = NotRun

\* C25, amended: a request of a method other than OPTIONS that matches no
\* route gets status 404 with the code ROUTE_NOT_FOUND and runs no action; an
\* OPTIONS request gets status 200 with no envelope and runs no action
C25_NoRouteIs404Amended ==
    /\ (Served /\ Candidates = {} /\ req.method # "OPTIONS") =>
          /\ resp.status = 404
          /\ Len(resp.envelopes) = 1
          /\ resp.envelopes[1].code = "ROUTE_NOT_FOUND"
          /\ ~resp.envelopes[1].success
          /\ ran = NotRun
          /\ httpRuns = 0
    /\ (Served /\ req.method = "OPTIONS") =>
          /\ resp = Preflight
          /\ ran = NotRun
          /\ httpRuns = 0

\* a PUT on a path that is registered for GET and POST has been answered
C25_Witness ==
    /\ Served
    /\ req.method = "PUT"
    /\ Stripped = <<"/", "a", "/", "b">>
    /\ resp.status = 404
    /\ ran = NotRun

\* the body of the request is one parseRequest reads and cannot decode
MalformedBody ==
    /\ req.method \in {"POST", "PUT", "PATCH"}
    /\ req.contentType \in {"application/json", "application/x-www-form-urlencoded"}
    /\ req.body = Malformed

\* C26: a request that reaches the action handler gets exactly one envelope:
\* status 200 and success when the action returned a result, otherwise a
\* failure with a code, of status 404 for no route, 400 for a malformed body
\* and 500 for an untyped error of the action
C26_OneEnvelope ==
    (Served /\ req.method # "OPTIONS") =>
        /\ Len(resp.envelopes) = 1
        /\ IF ran # NotRun /\ ran.outcome = "result"
           THEN resp.status = 200 /\ resp.envelopes[1].success
           ELSE /\ ~resp.envelopes[1].success
                /\ resp.envelopes[1].code # ""
                /\ resp.status >= 400
                /\ Candidates = {} => resp.status = 404
                /\ (Candidates # {} /\ MalformedBody) => resp.status = 400
                /\ (ran # NotRun /\ ran.outcome = "error") => resp.status = 500

\* the parameters of the three sources of the request
PathSource ==
    LET segs == Split(Web(ran.action).route)
    IN  [k \in {Tail(segs[j]) : j \in TokenPlaces(Web(ran.action).route)} |->
            Str(Split(Stripped)[CHOOSE j \in TokenPlaces(Web(ran.action).route) :
                                    Tail(segs[j]) = k])]

QuerySource == Values(req.query)

BodySource ==
    IF req.method \notin {"POST", "PUT", "PATCH"} THEN NoParams
    ELSE IF req.contentType = "application/json" THEN req.body
    ELSE IF req.contentType = "application/x-www-form-urlencoded" THEN Values(req.body)
    ELSE NoParams

\* C27: the parameters an action gets are the path parameters, the query
\* parameters and (for POST, PUT and PATCH) the body parameters: every key of
\* a source is there, with the value of the body over that of the query over
\* that of the path
C27_MergeOrder ==
    (Served /\ ran # NotRun) =>
        /\ DOMAIN ran.params = DOMAIN PathSource \cup DOMAIN QuerySource \cup DOMAIN BodySource
        /\ \A k \in DOMAIN ran.params :
              ran.params[k] = IF k \in DOMAIN BodySource THEN BodySource[k]
                              ELSE IF k \in DOMAIN QuerySource THEN QuerySource[k]
                              ELSE PathSource[k]

\* a POST whose body repeats a key of the path and a key of the query
C27_Witness ==
    /\ Served
    /\ ran.action = "make"
    /\ Key("b") \in DOMAIN PathSource /\ Key("b") \in DOMAIN BodySource
    /\ Key("k") \in DOMAIN QuerySource /\ Key("k") \in DOMAIN BodySource
    /\ ran.params[Key("b")] = Str("B")
    /\ ran.params[Key("k")] = Str("B")
    /\ PathSource[Key("b")] # Str("B")

\* the reply the envelope calls for: a response for an action envelope, the
\* confirmation for a subscribe or unsubscribe with a channel, an error
\* envelope for anything else
ExpectedReply(e, m) ==
    CASE e.type = "action" /\ e.action # "-" -> m.type = "response"
      [] e.type = "subscribe" /\ e.channel # "-" -> m = Confirmation("subscribed", e.channel)
      [] e.type = "unsubscribe" /\ e.channel # "-" ->
            m = Confirmation("unsubscribed", e.channel)
      [] OTHER -> m.type = "response" /\ m.success = "false"

\* C28: for every inbound envelope the reader pushes exactly one reply onto
\* the session's queue, of the kind the envelope calls for, and the session
\* stays open and in the connection table
C28_OneReplyPerEnvelope ==
    [][\A c \in Conns :
          /\ \A e \in AllEnvelopes : ReadEnvelope(c, e) =>
                /\ ~crashed'
                /\ rpc'[c] = "push"
                /\ ExpectedReply(e, rmsg'[c])
                /\ sock'[c] = "open"
                /\ c \in connections'
          /\ PushReply(c) =>
                /\ ~crashed'
                /\ pushed'[c] = Append(pushed[c], rmsg[c])
                /\ rpc'[c] = "read"]_vars

\* a step that applies a Subscribe or an Unsubscribe to channel ch
Applies(method, ch) ==
    \E g \in Callers :
        /\ caller[g] = [method |-> method, channel |-> ch]
        /\ caller'[g] = Idle

\* C29: whatever Subscribe and Unsubscribe calls goroutines make on a
\* connection, IsSubscribed of a channel is true exactly when the last of them
\* applied to the channel was a Subscribe; a repeated Subscribe or Unsubscribe
\* changes nothing; and a call on one channel leaves every other channel as
\* it was
C29_SubscriptionAlgebra ==
    /\ [](\A ch \in ConnChannels :
            Lookup(subscriptions, ch) <=> lastApplied[ch] = "Subscribe")
    /\ [][\A ch \in ConnChannels :
            /\ (\E g \in Callers : ConnIsSubscribed(g) /\ caller[g].channel = ch) =>
                  isSub' = [channel |-> ch, value |-> lastApplied[ch] = "Subscribe"]
            /\ (Applies("Subscribe", ch) /\ lastApplied[ch] = "Subscribe") =>
                  subscriptions' = subscriptions
            /\ (Applies("Unsubscribe", ch) /\ lastApplied[ch] # "Subscribe") =>
                  subscriptions' = subscriptions
            /\ (Applies("Subscribe", ch) \/ Applies("Unsubscribe", ch)) =>
                  \A other \in ConnChannels \ {ch} :
                      Lookup(subscriptions', other) = Lookup(subscriptions, other)]_vars

\* channel d is subscribed, channel c was subscribed and then unsubscribed
\* again, and IsSubscribed has answered for c
C29_Witness ==
    /\ lastApplied["c"] = "Unsubscribe"
    /\ lastApplied["d"] = "Subscribe"
    /\ Lookup(subscriptions, "d")
    /\ ~Lookup(subscriptions, "c")
    /\ isSub = [channel |-> "c", value |-> FALSE]
    /\ nCalls >= 4

\* the ids that some session has had
UsedIds == {c \in Conns : sock[c] # "none"}

C31_TeardownOrder ==
    /\ [][\A c \in Conns :
            /\ ReadFail(c) => (c \in connections /\ ~sendClosed[c] /\ rpc'[c] = "remove")
            /\ removeConnectionDelete(c) =>
                  (c \notin connections' /\ ~sendClosed'[c] /\ rpc'[c] = "closeq")
            /\ (sendClosed'[c] /\ ~sendClosed[c]) =>
                  (c \notin connections /\ rpc[c] = "closeq" /\ rpc'[c] = "closesock")
            /\ removeConnectionCloseSocket(c) =>
                  (c \notin connections /\ sendClosed[c] /\ sock'[c] = "closed")]_vars
    /\ \A c \in SoloConns : sendClosed[c] ~> (wpc[c] = "exit" \/ crashed)

\* the reader has torn the session down and the writer, with every message
\* written and no shutdown signalled, has ended on the closed queue
C31_Witness ==
    \E c \in SoloConns :
        /\ rpc[c] = "exit"
        /\ wpc[c] = "exit"
        /\ sendClosed[c]
        /\ c \notin connections
        /\ ~ctxDone
        /\ pushed[c] # <<>>
        /\ written[c] = pushed[c]

\* C32: Stop signals shutdown through the context, closes every tracked socket,
\* waits for all per-connection workers, and only after that wait shuts the
\* listener down
C32_StopOrder ==
    [][/\ StopCloseAll => ctxDone
       /\ StopShutdown =>
             /\ \A c \in Conns : sock[c] = "closed" \/ c \notin connections \/ rpc[c] = "idle"
             /\ SumWorkers(Conns) = 0]_vars

\* C32 as the code has it: Stop signals shutdown through the context, closes
\* every tracked socket, shuts the listener down, and only after that waits for
\* the workers; it returns when no worker is left
C32_StopOrderAmended ==
    [][/\ StopCancel => (ctxDone' /\ Listening')
       /\ StopCloseAll =>
             /\ ctxDone
             /\ Listening'
             /\ \A c \in connections : sock'[c] = "closed"
       /\ StopShutdown => (ctxDone /\ stopPc = "closed" /\ Listening /\ ~Listening')
       /\ StopWait =>
             /\ ~Listening
             /\ \A c \in Conns : rpc[c] \notin {"read", "push"} /\ wpc[c] # "run"
             /\ fan.state \notin {"idle", "iter"}]_vars

\* Stop has returned after a session was served, its listener shut down while
\* a worker of the session was still running
C32_Witness ==
    /\ stopPc = "done"
    /\ ~crashed
    /\ \E c \in Conns : rpc[c] = "exit" /\ wpc[c] = "exit" /\ pushed[c] # <<>>

\* the mutexes a goroutine holds, for writing or for reading
Held(g) == {m \in Mutexes : mutexes[m].writer = g \/ g \in mutexes[m].readers}

\* a goroutine at a lock operation it cannot complete
Waiting(g) == at[g] # Outside /\ ~Granted(g)

\* the goroutines a waiting goroutine waits for
WaitsFor(g) ==
    IF ~Waiting(g) THEN {}
    ELSE LET m == mutexes[NextOp(g).mutex]
         IN  ({m.writer} \ {""}) \cup m.readers
             \cup (IF NextOp(g).op = "RLock" THEN m.pending \ {g} ELSE {})

RECURSIVE WaitChain(_, _)
WaitChain(S, n) ==
    IF n = 0 THEN S
    ELSE WaitChain(S \cup UNION {WaitsFor(h) : h \in S}, n - 1)

\* no goroutine waits, directly or through others, for itself
NoWaitCycle ==
    \A g \in Goroutines : g \notin WaitChain(WaitsFor(g), Cardinality(Goroutines))

\* C33: no goroutine ever holds more than one lock at a time, so no cycle of
\* lock waits is reachable
C33_OneLockAtATime ==
    /\ \A g \in Goroutines : Cardinality(Held(g)) <= 1
    /\ NoWaitCycle

\* C33 as the code has it: only the fan-out worker ever holds two locks, the
\* table's read lock and inside it a Connection's read lock; every other
\* goroutine holds at most one, a goroutine holding a Connection's lock or a
\* registry lock never waits, and no cycle of lock waits is reachable
C33_OneLockAtATimeAmended ==
    /\ \A g \in Goroutines :
          /\ Cardinality(Held(g)) <= 2
          /\ Cardinality(Held(g)) = 2 =>
                /\ g = "handleBroadcasts"
                /\ Held(g) = {"connectionsMu", "Connection.mu"}
                /\ mutexes["connectionsMu"].writer = ""
                /\ mutexes["Connection.mu"].writer = ""
          /\ (Held(g) \ {"connectionsMu"} # {}) => ~Waiting(g)
    /\ NoWaitCycle

\* the fan-out worker waits for a Connection's lock inside the table's read
\* lock, while the reader holds the former and a Stop waits for the latter
C33_Witness ==
    /\ Held("handleBroadcasts") = {"connectionsMu"}
    /\ Waiting("handleBroadcasts")
    /\ mutexes["Connection.mu"].writer = "readWebSocket"
    /\ "main" \in mutexes["connectionsMu"].pending

\* C34: every upgrade takes a fresh id, puts the session into the connection
\* table before either of its workers starts, and launches exactly one reader
\* and exactly one writer for it; a session never has more than these two
C34_OneReaderOneWriter ==
    /\ [](\A c \in Conns :
            /\ hpc[c] = Len(UpgradeSteps) => (rpc[c] # "none" /\ wpc[c] # "none")
            /\ c \in connections => c \in UsedIds)
    /\ [][\A c \in Conns :
            /\ (c \notin UsedIds /\ c \in UsedIds') =>
                  (c \notin connections /\ rpc[c] = "none" /\ wpc[c] = "none" /\ nRemove[c] = 0)
            /\ (rpc[c] = "none" /\ rpc'[c] # "none") =>
                  (c \in connections /\ rpc'[c] = "read" /\ wpc[c] = "none")
            /\ (wpc[c] = "none" /\ wpc'[c] # "none") =>
                  (wpc'[c] = "run" /\ (c \in connections \/ nRemove[c] >= 1))
            /\ rpc[c] # "none" => rpc'[c] # "none"
            /\ wpc[c] # "none" => wpc'[c] # "none"
            /\ (rpc'[c] = "read" /\ rpc[c] \notin {"none", "read"}) => rpc[c] = "push"
            /\ (wpc'[c] = "run") => wpc[c] \in {"none", "run"}]_vars

\* two sessions under different ids, each with its reader and its writer at
\* work
C34_Witness ==
    /\ connections = {1, 2}
    /\ \A c \in {1, 2} : rpc[c] = "read" /\ wpc[c] = "run" /\ hpc[c] = Len(UpgradeSteps)

\* C35: every session in the connection table has an open queue, and the
\* fan-out worker, which pushes only to the sessions it finds in the table under
\* the read lock, never pushes onto a closed queue
C35_TableQueuesOpen ==
    /\ [](/\ \A c \in connections : ~sendClosed[c]
          /\ fan.state = "iter" => \A c \in fan.rem : c \in connections /\ ~sendClosed[c]
          /\ panicKind # "send on closed channel")
    /\ [][\A c \in Conns : Visits(c) => (c \in connections /\ ~sendClosed[c] /\ ~crashed')]_vars

\* the fan-out worker has pushed onto the queue of a session whose reader has
\* ended and waits, for the end of the round, to take the session out
C35_Witness ==
    \E c \in Conns :
        /\ fan.state = "iter"
        /\ c \in connections \ fan.rem
        /\ rpc[c] = "remove"
        /\ ~sendClosed[c]
        /\ send[c] # <<>>
        /\ send[c][Len(send[c])].type = "broadcast"

\* C36: who gets a broadcast is settled when the fan-out worker processes it,
\* not when Broadcast is called: the call touches no session's queue, the round
\* goes over the table as it is when the round starts, and a session of the
\* round gets the message exactly if it is subscribed when the worker comes to
\* it (and its queue has room)
C36_MembershipAtFanout ==
    [][/\ bcastCalls' # bcastCalls => (send' = send /\ pushed' = pushed /\ fan' = fan)
       /\ (fan.state = "idle" /\ fan'.state = "iter") =>
             (fan'.rem = connections /\ fan'.msg = Head(broadcast))
       /\ \A c \in Conns :
             /\ (pushed'[c] # pushed[c] /\ pushed'[c][Len(pushed'[c])].type = "broadcast") =>
                   /\ Visits(c)
                   /\ c \in connections
                   /\ fan.msg.channel \in subs[c]
                   /\ pushed'[c] = Append(pushed[c], fan.msg.data)
                   /\ \A i \in 1..Len(pushed[c]) : pushed[c][i] # fan.msg.data
             /\ Visits(c) =>
                   IF fan.msg.channel \in subs[c] /\ Len(send[c]) < SendCap
                   THEN pushed'[c] = Append(pushed[c], fan.msg.data)
                   ELSE pushed'[c] = pushed[c]]_vars

\* a round is over in which a session that subscribed after the Broadcast call
\* got the message, and a session that was subscribed at the call and left the
\* table before the round did not
C36_Witness ==
    \E c, d \in Conns, k \in 1..MaxBroadcasts :
        /\ fan.state = "idle"
        /\ broadcast = <<>>
        /\ k <= bcastCalls
        /\ Connected(c)
        /\ c \notin eligible[k]
        /\ c \notin nonsub[k]
        /\ Occurrences(pushed[c], k) = 1
        /\ d \in eligible[k]
        /\ d \notin connections
        /\ Occurrences(pushed[d], k) = 0
        /\ <<d, k>> \notin dropped

\* C37: a session whose socket has failed or whose writer has ended is
\* eventually taken out of the connection table, however full its queue is and
\* whatever its reader is pushing
C37_FailedSessionRemoved ==
    \A c \in SoloConns :
        (c \in connections /\ (sock[c] = "closed" \/ wpc[c] = "exit"))
            ~> (c \notin connections \/ crashed)

\* a Start has failed part-way and no Stop has passed the guard since
PartlyStarted == running /\ lifecycle # "Running"

\* C38: a Start that fails part-way leaves the API running: IsRunning is true,
\* a further Start returns the already-running error and invokes nothing, and a
\* following Stop passes the guard and invokes Stop on every registered
\* component, those whose Start was never invoked included
C38_FailedStartStaysRunning ==
    [][/\ (IsCallOf("Start") /\ ~running /\ failed' # {}) =>
             /\ IsRunning'
             /\ PartlyStarted'
             /\ apiOp'.err \notin {"nil", "API is already running"}
             /\ Len(calls') < Len(StartOrder) \/ failed' = {Len(StartOrder)}
       /\ (IsCallOf("Start") /\ PartlyStarted) =>
             /\ apiOp'.err = "API is already running"
             /\ calls' = <<>>
             /\ IsRunning'
             /\ PartlyStarted'
       /\ (IsCallOf("Stop") /\ PartlyStarted) =>
             /\ apiOp'.err = "nil"
             /\ ~IsRunning'
             /\ calls' = StopOrder
             /\ \A i \in 1..Len(StartOrder) : Count(calls', StartOrder[i]) >= 1
             /\ \A i \in 1..Len(calls') : methods'[i] = "Stop"]_vars

\* after a Start that failed at its first component, with a second one
\* registered, a further Start has been refused
C38_Witness ==
    /\ PartlyStarted
    /\ apiOp.op = "Start"
    /\ apiOp.err = "API is already running"
    /\ Len(startSeq) = 1
    /\ Len(StartOrder) = 2
    /\ nOps = 4

\* the callers past the guard of a call of op, up to the end of the call
PastGuard(op) ==
    {g \in GuardCallerIds : gpc[g].op = op /\ gpc[g].pc \in {"set", "unlock", "loops"}}

\* C39: the running flag is a mutual-exclusion guard: of the Start calls made
\* side by side on an API that is not running exactly one passes the guard and
\* runs the components' Start, of the Stop calls made side by side on a running
\* API exactly one passes and runs the components' Stop, and every other call
\* returns its error without invoking a component
C39_GuardIsExclusive ==
    /\ [](/\ \A i \in 1..Len(passes) :
                passes[i] = IF i % 2 = 1 THEN "Start" ELSE "Stop"
          /\ running <=> (Len(passes) % 2 = 1)
          /\ \A g \in GuardCallerIds :
                /\ gpc[g].err \in {"API is already running", "API is not running"}
                      => ~gpc[g].invoked
                /\ gpc[g].invoked => gpc[g].err = "nil"
                /\ gpc[g].pc \in {"check", "refuse", "set", "unlock"} => apiMu = g)
    /\ [][\A g \in GuardCallerIds :
            /\ (gpc[g].pc = "check" /\ gpc'[g].pc = "refuse") =>
                  IF gpc[g].op = "Start"
                  THEN running /\ passes # <<>> /\ passes[Len(passes)] = "Start"
                  ELSE ~running
            /\ (gpc[g].pc = "check" /\ gpc'[g].pc = "set") =>
                  /\ running = (gpc[g].op = "Stop")
                  /\ \A h \in GuardCallerIds \ {g} : gpc[h].pc \notin {"check", "set", "unlock"}
            /\ gpc'[g].invoked /\ ~gpc[g].invoked => gpc[g].pc = "loops"]_vars

\* three Start calls made side by side on a new API have returned: one passed
\* and ran the components, two were refused
C39_Witness ==
    /\ passes = <<"Start">>
    /\ \A g \in GuardCallerIds : gpc[g].op = "Start" /\ gpc[g].pc = "idle"
    /\ Cardinality({g \in GuardCallerIds : gpc[g].invoked /\ gpc[g].err = "nil"}) = 1
    /\ Cardinality({g \in GuardCallerIds :
                        ~gpc[g].invoked /\ gpc[g].err = "API is already running"}) = 2
    /\ nGuard = 3

\* C40: after a Stop, Start passes its guard again: it leaves the API running
\* and, when no component fails, returns nil having invoked every component's
\* Start; the context cancelled by the Stop stays cancelled, through this Start
\* and through every later step
C40_RestartKeepsContextCancelled ==
    [][/\ (IsCallOf("Start") /\ ~IsRunning /\ lifecycle = "Stopped") =>
             /\ apiCtxDone
             /\ apiCtxDone'
             /\ IsRunning'
             /\ apiOp'.err # "API is already running"
             /\ calls' = Invoked(StartOrder, Len(calls'))
             /\ \A i \in 1..Len(calls') : methods'[i] = "Start"
             /\ failed' = {} => (apiOp'.err = "nil" /\ calls' = StartOrder
                                    /\ lifecycle' = "Running")
       /\ apiCtxDone => apiCtxDone'
       /\ lifecycle = "Stopped" => (apiCtxDone /\ lifecycle' \in {"Stopped", "Running", "Initialized"})]_vars

\* started, stopped and started again with every component invoked, the
\* context cancelled
C40_Witness ==
    /\ apiOp.op = "Start"
    /\ apiOp.err = "nil"
    /\ IsRunning
    /\ apiCtxDone
    /\ lifecycle = "Running"
    /\ Len(calls) >= 2
    /\ calls = StartOrder
    /\ nOps = Len(calls) + 3

====
